---- MODULE Spec2Model ----
(***************************************************************************)
(* A model of the gibbon time-series codec: the bit sink and bit source of *)
(* vec_stream.rs, the delta-of-delta timestamp codec of                    *)
(* timestamp_stream.rs, the XOR value codec of double_stream.rs and the    *)
(* paired codec of time_and_value_stream.rs.                               *)
(*                                                                         *)
(* A u64 (and an i64, in two's complement) is kept as four 16-bit limbs,    *)
(* the most significant first; its bits are numbered from the most         *)
(* significant, so that BitAt(x, 1) is bit 63 and BitAt(x, 64) is bit 0.   *)
(*                                                                         *)
(* Rust checks shift amounts and integer arithmetic for overflow only when *)
(* overflow checks are compiled in (the default of debug and test builds); *)
(* otherwise a shift amount is taken modulo 64 and arithmetic wraps.  The  *)
(* variable overflow_checks holds the build's choice; every operator that  *)
(* can overflow returns the wrapped result together with an overflow flag. *)
(***************************************************************************)
EXTENDS Integers, Sequences, FiniteSets

VARIABLES
    overflow_checks,      \* TRUE: a build that panics on arithmetic overflow
    panicked,             \* the thread has panicked; nothing runs after that
    bit_vector,           \* VecWriter.bit_vector
    used_bits_last_elm,   \* VecWriter.used_bits_last_elm
    phase,                \* "write": the writer is owned; "read": a VecReader borrows a buffer
    reader,               \* VecReader: bit_vector, index, read_bits_current_index, num_bits_last_elm
    other_reader,         \* a second VecReader that borrows the same buffer
    iterator,             \* which iterator owns the reader: "none" for a bare VecReader
    header_time,          \* the header time the caller hands to encoder and decoder
    timestamps,           \* TimestampStreamWriter.state (TimeAndValueStream.timestamps)
    values,               \* DoubleStreamWriter.state (TimeAndValueStream.values)
    timestamp_parser,     \* TimestampStreamParser.state
    value_parser,         \* DoubleStreamParser.state
    lead_trail,           \* DoubleStreamLeadTrail.state
    call,                 \* history: the last call issued (op and arguments)
    written,              \* history: the <<bits, count>> of every completed write
    reads,                \* history: count, outcome and cursor of every read issued
    other_reads,          \* history: the same for the reads of the second reader
    pushed,               \* history: the argument of every completed push
    decoded               \* history: what every completed next() returned

sinkVars == <<bit_vector, used_bits_last_elm>>

otherVars == <<other_reader, other_reads, iterator>>

codecVars == <<header_time, timestamps, values, timestamp_parser, value_parser,
               lead_trail>>

vars == <<overflow_checks, panicked, bit_vector, used_bits_last_elm, phase, reader,
          header_time, timestamps, values, timestamp_parser, value_parser, lead_trail,
          call, written, reads, pushed, decoded, other_reader, other_reads,
          iterator>>

-----------------------------------------------------------------------------
(* 64-bit words *)

\* A word is kept as its four 16-bit limbs, the most significant first:
\* 0x0000_0000_0001_0002 is <<0, 0, 1, 2>>.
WordBits == 64

Zero64 == <<0, 0, 0, 0>>

Ones64 == <<65535, 65535, 65535, 65535>>

One64 == <<0, 0, 0, 1>>

\* 0xAAAA_AAAA_AAAA_AAAA
Alt64 == <<43690, 43690, 43690, 43690>>

\* bit 64 - i of x: BitAt(x, 1) is the most significant bit, BitAt(x, 64) the least
BitAt(x, i) == (x[((i - 1) \div 16) + 1] \div 2 ^ (15 - ((i - 1) % 16))) % 2

\* the bits of x, most significant first
Bits(x) == [i \in 1..WordBits |-> BitAt(x, i)]

\* limb j of x, 0 outside the word
Limb(x, j) == IF j \in 1..4 THEN x[j] ELSE 0

\* limb j of x << (16 * q + r), 0 <= r < 16
ShlLimb(x, q, r, j) ==
    ((Limb(x, j + q) * 2 ^ r) % 65536) + (Limb(x, j + q + 1) \div 2 ^ (16 - r))

\* x << n for 0 <= n; bits shifted past bit 63 are lost
Shl(x, n) ==
    <<ShlLimb(x, n \div 16, n % 16, 1), ShlLimb(x, n \div 16, n % 16, 2),
      ShlLimb(x, n \div 16, n % 16, 3), ShlLimb(x, n \div 16, n % 16, 4)>>

\* limb j of x >> (16 * q + r), 0 <= r < 16
ShrLimb(x, q, r, j) ==
    (Limb(x, j - q) \div 2 ^ r) + ((Limb(x, j - q - 1) % 2 ^ r) * 2 ^ (16 - r))

\* x >> n for 0 <= n (logical)
Shr(x, n) ==
    <<ShrLimb(x, n \div 16, n % 16, 1), ShrLimb(x, n \div 16, n % 16, 2),
      ShrLimb(x, n \div 16, n % 16, 3), ShrLimb(x, n \div 16, n % 16, 4)>>

\* a ^ b and a & b on the n low bits of two limbs
RECURSIVE XorLimb(_, _, _)
XorLimb(a, b, n) ==
    IF n = 0 THEN 0 ELSE 2 * XorLimb(a \div 2, b \div 2, n - 1) + ((a + b) % 2)

RECURSIVE AndLimb(_, _, _)
AndLimb(a, b, n) ==
    IF n = 0 THEN 0 ELSE 2 * AndLimb(a \div 2, b \div 2, n - 1) + ((a % 2) * (b % 2))

Xor(x, y) ==
    <<XorLimb(x[1], y[1], 16), XorLimb(x[2], y[2], 16),
      XorLimb(x[3], y[3], 16), XorLimb(x[4], y[4], 16)>>

And(x, y) ==
    <<AndLimb(x[1], y[1], 16), AndLimb(x[2], y[2], 16),
      AndLimb(x[3], y[3], 16), AndLimb(x[4], y[4], 16)>>

\* the k low bits of a limb set, for any k
LowMaskLimb(k) == IF k <= 0 THEN 0 ELSE IF k >= 16 THEN 65535 ELSE 2 ^ k - 1

\* (1 << n) - 1 for 0 <= n <= 64: the n low bits set
LowMask(n) == <<LowMaskLimb(n - 48), LowMaskLimb(n - 32), LowMaskLimb(n - 16), LowMaskLimb(n)>>

\* the shift amount the hardware uses when the amount is not checked
WrapShift(n) == n % WordBits

ShiftOverflows(n) == n >= WordBits

\* x + y + c on u64 (c is 0 or 1), limb by limb with the carry rippling up:
\* the wrapped sum and whether the addition overflowed
AddCarry64(x, y, c) ==
    LET s4 == x[4] + y[4] + c
        s3 == x[3] + y[3] + (s4 \div 65536)
        s2 == x[2] + y[2] + (s3 \div 65536)
        s1 == x[1] + y[1] + (s2 \div 65536)
    IN  [val      |-> <<s1 % 65536, s2 % 65536, s3 % 65536, s4 % 65536>>,
         overflow |-> s1 >= 65536]

Add64(x, y) == AddCarry64(x, y, 0)

\* !x
\* x | y
Or(x, y) == Xor(Xor(x, y), And(x, y))

Not64(x) == <<65535 - x[1], 65535 - x[2], 65535 - x[3], 65535 - x[4]>>

\* x - y on u64: the wrapped difference, and whether it underflowed (x < y)
Sub64(x, y) ==
    LET r == AddCarry64(x, Not64(y), 1)
    IN  [val |-> r.val, overflow |-> ~r.overflow]

\* an i64 is the u64 with the same bits (what `as i64` and `as u64` do);
\* it is negative when bit 63 is set
Negative(a) == a[1] >= 32768

\* a + b on i64: the wrapped sum and whether the addition overflowed
AddI64(a, b) ==
    LET r == Add64(a, b).val
    IN  [val |-> r, overflow |-> Negative(a) = Negative(b) /\ Negative(r) # Negative(a)]

\* a - b on i64: the wrapped difference and whether the subtraction overflowed
SubI64(a, b) ==
    LET r == Sub64(a, b).val
    IN  [val |-> r, overflow |-> Negative(a) # Negative(b) /\ Negative(r) # Negative(a)]

\* x < y and x <= y on u64
LtU64(x, y) == \E j \in 1..4 : x[j] < y[j] /\ \A k \in 1..(j - 1) : x[k] = y[k]

LeU64(x, y) == x = y \/ LtU64(x, y)

\* a <= b on i64
LeI64(a, b) == IF Negative(a) # Negative(b) THEN Negative(a) ELSE LeU64(a, b)

\* the 64-bit two's complement word of a literal n, -2^31 < n < 2^31
FromInt(n) ==
    IF n >= 0 THEN <<0, 0, n \div 65536, n % 65536>>
    ELSE <<65535, 65535, (n \div 65536) % 65536, n % 65536>>

\* Option<u64>: None is the empty sequence, Some(x) the one-element sequence
None == <<>>

Some(x) == <<x>>

-----------------------------------------------------------------------------
(* vec_stream.rs: VecWriter *)

VecWriter_new == [bit_vector |-> <<Zero64>>, used_bits_last_elm |-> 0]

VecWriter_len(self) ==
    (Len(self.bit_vector) - 1) * WordBits + self.used_bits_last_elm

ReplaceLast(v, word) == [v EXCEPT ![Len(v)] = word]

\* a new word that holds the payload in its low bits
VecWriter_write_new_word_low(self, bits, count) ==
    [bit_vector         |-> Append(self.bit_vector, bits),
     used_bits_last_elm |-> count,
     overflow           |-> ShiftOverflows(WordBits - count)]

\* line 24-25: the last word is full, the payload starts a new word
VecWriter_write_new_word(self, bits, count) ==
    [bit_vector         |-> Append(self.bit_vector, Shl(bits, WrapShift(WordBits - count))),
     used_bits_last_elm |-> count,
     overflow           |-> ShiftOverflows(WordBits - count)]

\* a write that packs from the least significant end of the word
VecWriter_write_fits_lsb_first(self, bits, count) ==
    LET v == self.bit_vector
    IN  [bit_vector         |-> ReplaceLast(v, Xor(v[Len(v)], Shl(bits, self.used_bits_last_elm))),
         used_bits_last_elm |-> self.used_bits_last_elm + count,
         overflow           |-> FALSE]

\* a write that stores the payload over the word instead of xor-ing it in
VecWriter_write_fits_overwrites(self, bits, count) ==
    LET v              == self.bit_vector
        remaining_bits == WordBits - self.used_bits_last_elm
    IN  [bit_vector         |-> ReplaceLast(v, Shl(bits, WrapShift(remaining_bits - count))),
         used_bits_last_elm |-> self.used_bits_last_elm + count,
         overflow           |-> ShiftOverflows(remaining_bits - count)]

\* line 27-31: the payload fits into the last word
VecWriter_write_fits(self, bits, count) ==
    LET v              == self.bit_vector
        remaining_bits == WordBits - self.used_bits_last_elm
    IN  [bit_vector         |-> ReplaceLast(v,
                                  Xor(v[Len(v)], Shl(bits, WrapShift(remaining_bits - count)))),
         used_bits_last_elm |-> self.used_bits_last_elm + count,
         overflow           |-> ShiftOverflows(remaining_bits - count)]

\* a split write that forgets to subtract the bits put in the former word
VecWriter_write_spans_keeps_count(self, bits, count) ==
    LET v              == self.bit_vector
        remaining_bits == WordBits - self.used_bits_last_elm
    IN  [bit_vector         |-> Append(
                                  ReplaceLast(v, Xor(v[Len(v)], Shr(bits, count - remaining_bits))),
                                  Shl(bits, WordBits - (count - remaining_bits))),
         used_bits_last_elm |-> count,
         overflow           |-> FALSE]

\* line 33-42: the payload is split between the last word and a new one
VecWriter_write_spans(self, bits, count) ==
    LET v              == self.bit_vector
        remaining_bits == WordBits - self.used_bits_last_elm
        bits_former    == remaining_bits
        bits_latter    == count - remaining_bits
    IN  [bit_vector         |-> Append(
                                  ReplaceLast(v, Xor(v[Len(v)], Shr(bits, count - bits_former))),
                                  Shl(bits, WordBits - bits_latter)),
         used_bits_last_elm |-> bits_latter,
         overflow           |-> FALSE]

\* write(bits, count) for count in 0..64: the writer after the call, and
\* whether a shift amount overflowed (every shift is evaluated before
\* anything is stored, so a panic leaves the writer as it was)
VecWriter_write(self, bits, count) ==
    IF self.used_bits_last_elm = WordBits
    THEN VecWriter_write_new_word(self, bits, count)
    ELSE IF count <= WordBits - self.used_bits_last_elm
         THEN VecWriter_write_fits(self, bits, count)
         ELSE VecWriter_write_spans(self, bits, count)

-----------------------------------------------------------------------------
(* vec_stream.rs: VecReader *)

VecReader_new(data, num_bits_last_elm) ==
    [bit_vector              |-> data,
     index                   |-> 0,
     read_bits_current_index |-> 0,
     num_bits_last_elm       |-> num_bits_last_elm]

\* line 74-76: total_bits - read_bits, the bits not yet consumed
VecReader_remaining(self) ==
    ((Len(self.bit_vector) - 1) * WordBits + self.num_bits_last_elm)
        - (self.index * WordBits + self.read_bits_current_index)

\* a check against the bits left in the current word, not in the buffer
VecReader_insufficient_current_word(self, count) ==
    WordBits - self.read_bits_current_index < count

\* line 78: remaining_bits < count.  The subtraction of line 76 is on usize:
\* were it to underflow it would wrap to a huge number, which is not < count.
VecReader_insufficient(self, count) ==
    VecReader_remaining(self) >= 0 /\ VecReader_remaining(self) < count

\* a failed read that has already moved the cursor
VecReader_read_none_advances(self, count) ==
    [reader   |-> [self EXCEPT !.read_bits_current_index = (@ + count) % (WordBits + 1)],
     ret      |-> None,
     overflow |-> FALSE,
     oob      |-> FALSE]

\* line 71 and 79: None, the reader untouched
VecReader_read_none(self, count) ==
    [reader |-> self, ret |-> None, overflow |-> FALSE, oob |-> FALSE]

\* a read that clears the word it has read from
VecReader_read_within_consumes(self, count) ==
    LET v    == self.bit_vector
        remaining_bits_current_word == WordBits - self.read_bits_current_index
        mask == Shr(Ones64, WrapShift(WordBits - count))
        sh   == remaining_bits_current_word - count
        oob  == self.index >= Len(v)
    IN  [reader   |-> [self EXCEPT !.read_bits_current_index = @ + count,
                                   !.bit_vector = IF oob THEN v
                                                  ELSE [v EXCEPT ![self.index + 1] = Zero64]],
         ret      |-> IF oob THEN None
                      ELSE Some(And(Shr(v[self.index + 1], WrapShift(sh)), mask)),
         overflow |-> \/ VecReader_remaining(self) < 0
                      \/ ShiftOverflows(WordBits - count)
                      \/ ShiftOverflows(sh),
         oob      |-> oob]

\* line 81-85: the bits lie within the current word
VecReader_read_within(self, count) ==
    LET v    == self.bit_vector
        remaining_bits_current_word == WordBits - self.read_bits_current_index
        mask == Shr(Ones64, WrapShift(WordBits - count))
        sh   == remaining_bits_current_word - count
        oob  == self.index >= Len(v)
    IN  [reader   |-> [self EXCEPT !.read_bits_current_index = @ + count],
         ret      |-> IF oob THEN None
                      ELSE Some(And(Shr(v[self.index + 1], WrapShift(sh)), mask)),
         overflow |-> \/ VecReader_remaining(self) < 0
                      \/ ShiftOverflows(WordBits - count)
                      \/ ShiftOverflows(sh),
         oob      |-> oob]

\* a stitched read that forgets to subtract the bits taken from the former word
VecReader_read_spanning_keeps_count(self, count) ==
    LET v           == self.bit_vector
        remaining_bits_current_word == WordBits - self.read_bits_current_index
        bits_former == remaining_bits_current_word
        bits_latter == count - remaining_bits_current_word
        index       == self.index + 1
        oob         == index >= Len(v)
        former      == Shl(And(v[index], LowMask(bits_former)), WrapShift(bits_latter))
        latter      == Shr(v[index + 1], WordBits - bits_latter)
        sum         == Add64(former, latter)
    IN  [reader   |-> [self EXCEPT !.index = index,
                                   !.read_bits_current_index = count],
         ret      |-> IF oob THEN None ELSE Some(sum.val),
         overflow |-> \/ VecReader_remaining(self) < 0
                      \/ ShiftOverflows(bits_latter)
                      \/ (~oob /\ sum.overflow),
         oob      |-> oob]

\* line 87-96: the bits are stitched from the current word and the next
VecReader_read_spanning(self, count) ==
    LET v           == self.bit_vector
        remaining_bits_current_word == WordBits - self.read_bits_current_index
        bits_former == remaining_bits_current_word
        bits_latter == count - remaining_bits_current_word
        index       == self.index + 1
        oob         == index >= Len(v)
        former      == Shl(And(v[index], LowMask(bits_former)), WrapShift(bits_latter))
        latter      == Shr(v[index + 1], WordBits - bits_latter)
        sum         == Add64(former, latter)
    IN  [reader   |-> [self EXCEPT !.index = index,
                                   !.read_bits_current_index = bits_latter],
         ret      |-> IF oob THEN None ELSE Some(sum.val),
         overflow |-> \/ VecReader_remaining(self) < 0
                      \/ ShiftOverflows(bits_latter)
                      \/ (~oob /\ sum.overflow),
         oob      |-> oob]

\* read(count) for count in 0..64: the reader after the call, the value
\* returned, whether a shift, a subtraction or the addition overflowed, and
\* whether a word outside the vector was indexed.  The cursor is advanced
\* before the shifts are evaluated, as in the code.
VecReader_read(self, count) ==
    IF Len(self.bit_vector) = 0 THEN VecReader_read_none(self, count)
    ELSE IF VecReader_insufficient(self, count) THEN VecReader_read_none(self, count)
    ELSE IF count <= WordBits - self.read_bits_current_index
         THEN VecReader_read_within(self, count)
         ELSE VecReader_read_spanning(self, count)

-----------------------------------------------------------------------------
(* stream.rs: a codec's calls on its `&mut Writer` and `&mut Reader`, here *)
(* the VecWriter and the VecReader.  `checks` is the build's              *)
(* overflow_checks: a call that overflows stops the caller there.          *)

\* the writes of one push, issued in order on the sink w: the sink after
\* them, the writes that completed, and whether one of them panicked
RECURSIVE WriteAll(_, _, _)

\* the first write is done; the rest follow on the sink it left
WriteAll_rest(first, rest) ==
    [writer |-> rest.writer, done |-> <<first>> \o rest.done, panic |-> rest.panic]

\* r is what the first write returns on the sink w
WriteAll_first(w, writes, checks, r) ==
    IF checks /\ r.overflow
    THEN [writer |-> w, done |-> <<>>, panic |-> TRUE]
    ELSE WriteAll_rest(Head(writes),
                       WriteAll([bit_vector         |-> r.bit_vector,
                                 used_bits_last_elm |-> r.used_bits_last_elm],
                                Tail(writes), checks))

WriteAll(w, writes, checks) ==
    IF writes = <<>> THEN [writer |-> w, done |-> <<>>, panic |-> FALSE]
    ELSE WriteAll_first(w, writes, checks,
                        VecWriter_write(w, Head(writes)[1], Head(writes)[2]))

\* a push that got as far as its writes (or panicked before them)
ApplyPush(p, w, checks) ==
    IF p.panic THEN [writer |-> w, done |-> <<>>, panic |-> TRUE]
    ELSE WriteAll(w, p.writes, checks)

\* the push p of the encoder `self` on the sink w: the encoder's state is
\* assigned after the writes, so a push that panics leaves it as it was
PushOnto_applied(self, p, a) ==
    [state  |-> IF a.panic THEN self ELSE p.state,
     writer |-> a.writer,
     done   |-> a.done,
     panic  |-> a.panic]

PushOnto(self, p, w, checks) == PushOnto_applied(self, p, ApplyPush(p, w, checks))

\* what a reader.read(count) that returned r gives the parser
ReaderRead_result(r, checks) ==
    [reader |-> r.reader, ret |-> r.ret, panic |-> r.oob \/ (checks /\ r.overflow)]

\* reader.read(count)
ReaderRead(rd, count, checks) == ReaderRead_result(VecReader_read(rd, count), checks)

\* the same, unwrapped: None is a panic
ReaderReadUnwrap_result(r, checks) ==
    [reader |-> r.reader,
     ret    |-> r.ret,
     panic  |-> r.oob \/ (checks /\ r.overflow) \/ r.ret = None]

\* reader.read(count).unwrap()
ReaderReadUnwrap(rd, count, checks) ==
    ReaderReadUnwrap_result(VecReader_read(rd, count), checks)

\* a next() that panicked with the reader at rd
ParserPanic(self, rd) == [state |-> self, reader |-> rd, ret |-> None, panic |-> TRUE]

\* a next() that returns None and skips a bit of the stream
ParserNone_skips(self, rd) ==
    [state  |-> self,
     reader |-> [rd EXCEPT !.read_bits_current_index = (@ + 1) % (WordBits + 1)],
     ret    |-> None,
     panic  |-> FALSE]

\* a next() that returned None
ParserNone(self, rd) == [state |-> self, reader |-> rd, ret |-> None, panic |-> FALSE]

-----------------------------------------------------------------------------
(* timestamp_stream.rs *)

TimestampStreamState_Initial(h) == [tag |-> "Initial", header_time |-> h]

TimestampStreamState_Following(v, d) == [tag |-> "Following", value |-> v, delta |-> d]

TimestampStreamWriter_new(h) == TimestampStreamState_Initial(h)

TimestampStreamParser_new(h) == TimestampStreamState_Initial(h)

\* a first push that writes the low 14 bits of the timestamp itself
TimestampStreamWriter_push_initial_absolute(self, number) ==
    LET delta == Sub64(number, self.header_time).val
    IN  [delta    |-> delta,
         writes   |-> << <<And(number, LowMask(14)), 14>> >>,
         accepted |-> LeU64(self.header_time, number) /\ LeU64(delta, Shl(One64, 14)),
         overflow |-> FALSE]

\* line 31-38: the first push
TimestampStreamWriter_push_initial(self, number) ==
    LET delta == Sub64(number, self.header_time).val
    IN  [delta    |-> delta,
         writes   |-> << <<delta, 14>> >>,
         accepted |-> LeU64(self.header_time, number) /\ LeU64(delta, Shl(One64, 14)),
         overflow |-> FALSE]

\* line 43-57: the size class of a delta of deltas, as the writes it issues
TimestampStreamWriter_class(delta_of_deltas) ==
    IF delta_of_deltas = Zero64 THEN << <<Zero64, 1>> >>
    ELSE IF LeI64(FromInt(-63), delta_of_deltas) /\ LeI64(delta_of_deltas, FromInt(64))
    THEN << <<FromInt(2), 2>>, <<AddI64(delta_of_deltas, FromInt(63)).val, 7>> >>
    ELSE IF LeI64(FromInt(-255), delta_of_deltas) /\ LeI64(delta_of_deltas, FromInt(256))
    THEN << <<FromInt(6), 3>>, <<AddI64(delta_of_deltas, FromInt(255)).val, 9>> >>
    ELSE IF LeI64(FromInt(-2047), delta_of_deltas) /\ LeI64(delta_of_deltas, FromInt(2048))
    THEN << <<FromInt(14), 4>>, <<AddI64(delta_of_deltas, FromInt(2047)).val, 12>> >>
    ELSE << <<FromInt(15), 4>>, <<delta_of_deltas, 32>> >>

\* line 39-60: a later push
TimestampStreamWriter_push_following(self, number) ==
    LET delta           == Sub64(number, self.value)
        delta_of_deltas == SubI64(delta.val, self.delta)
    IN  [delta    |-> delta.val,
         writes   |-> TimestampStreamWriter_class(delta_of_deltas.val),
         accepted |-> TRUE,
         overflow |-> delta.overflow \/ delta_of_deltas.overflow]

\* push(number, writer): the state after it and the writes it issues; the
\* asserts and the arithmetic come before the first write
TimestampStreamWriter_push(self, number, checks) ==
    LET r == IF self.tag = "Initial"
             THEN TimestampStreamWriter_push_initial(self, number)
             ELSE TimestampStreamWriter_push_following(self, number)
    IN  IF ~r.accepted \/ (checks /\ r.overflow)
        THEN [state |-> self, writes |-> <<>>, panic |-> TRUE]
        ELSE [state  |-> TimestampStreamState_Following(number, r.delta),
              writes |-> r.writes,
              panic  |-> FALSE]

\* line 115-117: the sample becomes the state, its value is returned
TimestampStreamParser_some(rd, value, delta) ==
    [state  |-> TimestampStreamState_Following(value, delta),
     reader |-> rd,
     ret    |-> Some(value),
     panic  |-> FALSE]

\* line 84: r is reader.read(14); the first sample is header_time + delta
TimestampStreamParser_first(self, r, checks) ==
    IF r.panic THEN ParserPanic(self, r.reader)
    ELSE IF r.ret = None THEN ParserNone(self, r.reader)
    ELSE IF checks /\ Add64(self.header_time, r.ret[1]).overflow
    THEN ParserPanic(self, r.reader)
    ELSE TimestampStreamParser_some(r.reader, Add64(self.header_time, r.ret[1]).val, r.ret[1])

TimestampStreamParser_next_initial(self, rd, checks) ==
    TimestampStreamParser_first(self, ReaderRead(rd, 14, checks), checks)

\* line 103-107: r is reader.read(num_bits).unwrap(); the payload as i64,
\* minus the bias, is added to the delta, and the delta to the value
TimestampStreamParser_apply(self, r, bias, checks) ==
    LET delta_of_deltas == SubI64(r.ret[1], FromInt(bias))
        new_delta       == AddI64(self.delta, delta_of_deltas.val)
    IN  IF r.panic THEN ParserPanic(self, r.reader)
        ELSE IF checks /\ (delta_of_deltas.overflow \/ new_delta.overflow)
        THEN ParserPanic(self, r.reader)
        ELSE TimestampStreamParser_some(r.reader, Add64(self.value, new_delta.val).val,
                                        new_delta.val)

\* line 103: the payload of the class (num_bits, bias)
TimestampStreamParser_payload(self, rd, num_bits, bias, checks) ==
    TimestampStreamParser_apply(self, ReaderReadUnwrap(rd, num_bits, checks), bias, checks)

\* line 97-100: r is the fourth prefix bit, unwrapped: 1110 or 1111
TimestampStreamParser_prefix4(self, r, checks) ==
    IF r.panic THEN ParserPanic(self, r.reader)
    ELSE IF r.ret = Some(Zero64)
    THEN TimestampStreamParser_payload(self, r.reader, 12, 2047, checks)
    ELSE TimestampStreamParser_payload(self, r.reader, 32, 0, checks)

\* line 95-96: r is the third prefix bit, unwrapped: 110 or more
TimestampStreamParser_prefix3(self, r, checks) ==
    IF r.panic THEN ParserPanic(self, r.reader)
    ELSE IF r.ret = Some(Zero64)
    THEN TimestampStreamParser_payload(self, r.reader, 9, 255, checks)
    ELSE TimestampStreamParser_prefix4(self, ReaderReadUnwrap(r.reader, 1, checks), checks)

\* the second prefix bit read with a bias of 64 for the 7-bit class
TimestampStreamParser_prefix2_bias64(self, r, checks) ==
    IF r.panic THEN ParserPanic(self, r.reader)
    ELSE IF r.ret = Some(Zero64)
    THEN TimestampStreamParser_payload(self, r.reader, 7, 64, checks)
    ELSE TimestampStreamParser_prefix3(self, ReaderReadUnwrap(r.reader, 1, checks), checks)

\* line 93-94: r is the second prefix bit, unwrapped: 10 or more
TimestampStreamParser_prefix2(self, r, checks) ==
    IF r.panic THEN ParserPanic(self, r.reader)
    ELSE IF r.ret = Some(Zero64)
    THEN TimestampStreamParser_payload(self, r.reader, 7, 63, checks)
    ELSE TimestampStreamParser_prefix3(self, ReaderReadUnwrap(r.reader, 1, checks), checks)

\* line 87-111: r is reader.read(1), the first prefix bit
TimestampStreamParser_prefix1(self, r, checks) ==
    IF r.panic THEN ParserPanic(self, r.reader)
    ELSE IF r.ret = None THEN ParserNone(self, r.reader)
    ELSE IF r.ret = Some(Zero64)
    THEN TimestampStreamParser_some(r.reader, Add64(self.value, self.delta).val, self.delta)
    ELSE IF r.ret = Some(One64)
    THEN TimestampStreamParser_prefix2(self, ReaderReadUnwrap(r.reader, 1, checks), checks)
    ELSE ParserPanic(self, r.reader)

TimestampStreamParser_next_following(self, rd, checks) ==
    TimestampStreamParser_prefix1(self, ReaderRead(rd, 1, checks), checks)

\* next(reader): the parser and the reader after it, and what it returned
TimestampStreamParser_next(self, rd, checks) ==
    IF self.tag = "Initial"
    THEN TimestampStreamParser_next_initial(self, rd, checks)
    ELSE TimestampStreamParser_next_following(self, rd, checks)

-----------------------------------------------------------------------------
(* double_stream.rs.  An f64 is its 64-bit pattern: to_bits and from_bits  *)
(* reinterpret the bits and change none of them.                           *)

DoubleStreamState_Initial == [tag |-> "Initial"]

DoubleStreamState_Following(v, x) == [tag |-> "Following", value |-> v, xor |-> x]

DoubleStreamWriter_new == DoubleStreamState_Initial

DoubleStreamParser_new == DoubleStreamState_Initial

\* u64::leading_zeros and u64::trailing_zeros, limb by limb
LeadingZeros16(v) ==
    IF v = 0 THEN 16 ELSE 16 - (CHOOSE k \in 1..16 : 2 ^ (k - 1) <= v /\ v < 2 ^ k)

TrailingZeros16(v) ==
    IF v = 0 THEN 16 ELSE CHOOSE k \in 0..15 : v % 2 ^ (k + 1) = 2 ^ k

LeadingZeros(x) ==
    IF x[1] # 0 THEN LeadingZeros16(x[1])
    ELSE IF x[2] # 0 THEN 16 + LeadingZeros16(x[2])
    ELSE IF x[3] # 0 THEN 32 + LeadingZeros16(x[3])
    ELSE 48 + LeadingZeros16(x[4])

TrailingZeros(x) ==
    IF x[4] # 0 THEN TrailingZeros16(x[4])
    ELSE IF x[3] # 0 THEN 16 + TrailingZeros16(x[3])
    ELSE IF x[2] # 0 THEN 32 + TrailingZeros16(x[2])
    ELSE 48 + TrailingZeros16(x[1])

Min(a, b) == IF a <= b THEN a ELSE b

\* line 52-53 and 109-110: the window of the previous xor
PrevLz(prev_xor) == LeadingZeros(prev_xor)

PrevTz(prev_xor) == IF PrevLz(prev_xor) = 64 THEN 0 ELSE TrailingZeros(prev_xor)

\* a fit test that looks at the leading zeros only
DoubleStreamWriter_fits_leading_only(xored, prev_xor) ==
    Min(LeadingZeros(xored), 31) >= PrevLz(prev_xor)

\* line 55: the xor fits into the previous window
DoubleStreamWriter_fits(xored, prev_xor) ==
    Min(LeadingZeros(xored), 31) >= PrevLz(prev_xor) /\ TrailingZeros(xored) >= PrevTz(prev_xor)

\* a window fit that writes the xor down to its own trailing zeros
DoubleStreamWriter_write_fit_own_tz(xored, prev_xor) ==
    LET meaningful_bits      == Shr(xored, TrailingZeros(xored))
        meaningful_bit_count == 64 - PrevTz(prev_xor) - PrevLz(prev_xor)
    IN  << <<FromInt(2), 2>>, <<meaningful_bits, meaningful_bit_count>> >>

\* line 56-61: the control bits 10 and the xor in the previous window
DoubleStreamWriter_write_fit(xored, prev_xor) ==
    LET meaningful_bits      == Shr(xored, PrevTz(prev_xor))
        meaningful_bit_count == 64 - PrevTz(prev_xor) - PrevLz(prev_xor)
    IN  << <<FromInt(2), 2>>, <<meaningful_bits, meaningful_bit_count>> >>

\* a new window whose leading zeros are not capped at 31
DoubleStreamWriter_write_window_uncapped(xored) ==
    LET lz                   == LeadingZeros(xored)
        tz                   == TrailingZeros(xored)
        meaningful_bits      == Shr(xored, tz)
        meaningful_bit_count == 64 - tz - lz
    IN  << <<FromInt(3), 2>>, <<FromInt(lz), 5>>, <<FromInt(meaningful_bit_count - 1), 6>>,
           <<meaningful_bits, meaningful_bit_count>> >>

\* line 63-75: the control bits 11 and a new window
DoubleStreamWriter_write_window(xored) ==
    LET lz                   == Min(LeadingZeros(xored), 31)
        tz                   == TrailingZeros(xored)
        meaningful_bits      == Shr(xored, tz)
        meaningful_bit_count == 64 - tz - lz
    IN  << <<FromInt(3), 2>>, <<FromInt(lz), 5>>, <<FromInt(meaningful_bit_count - 1), 6>>,
           <<meaningful_bits, meaningful_bit_count>> >>

\* a push that treats a repeated value like any other
DoubleStreamWriter_push_no_repeat(self, number_as_bits) ==
    IF self.tag = "Initial"
    THEN [state  |-> DoubleStreamState_Following(number_as_bits, number_as_bits),
          writes |-> << <<number_as_bits, 64>> >>,
          panic  |-> FALSE]
    ELSE [state  |-> DoubleStreamState_Following(number_as_bits,
                                                 Xor(self.value, number_as_bits)),
          writes |-> DoubleStreamWriter_write_window(Xor(self.value, number_as_bits)),
          panic  |-> FALSE]

\* push(number, writer): the state after it and the writes it issues
DoubleStreamWriter_push(self, number_as_bits) ==
    IF self.tag = "Initial"
    THEN [state  |-> DoubleStreamState_Following(number_as_bits, number_as_bits),
          writes |-> << <<number_as_bits, 64>> >>,
          panic  |-> FALSE]
    ELSE LET xored == Xor(self.value, number_as_bits)
         IN  [state  |-> DoubleStreamState_Following(number_as_bits, xored),
              writes |-> IF xored = Zero64 THEN << <<Zero64, 1>> >>
                         ELSE IF DoubleStreamWriter_fits(xored, self.xor)
                              THEN DoubleStreamWriter_write_fit(xored, self.xor)
                              ELSE DoubleStreamWriter_write_window(xored),
              panic  |-> FALSE]

\* line 135-137: the sample becomes the state, its value is returned
DoubleStreamParser_some(rd, value, xor) ==
    [state  |-> DoubleStreamState_Following(value, xor),
     reader |-> rd,
     ret    |-> Some(value),
     panic  |-> FALSE]

\* a first read that yields the sample and stays Initial
DoubleStreamParser_first_stays_initial(self, r) ==
    IF r.panic THEN ParserPanic(self, r.reader)
    ELSE IF r.ret = None THEN ParserNone(self, r.reader)
    ELSE [state |-> self, reader |-> r.reader, ret |-> Some(r.ret[1]), panic |-> FALSE]

\* line 99: r is reader.read(64); the first sample is stored whole
DoubleStreamParser_first(self, r) ==
    IF r.panic THEN ParserPanic(self, r.reader)
    ELSE IF r.ret = None THEN ParserNone(self, r.reader)
    ELSE DoubleStreamParser_some(r.reader, r.ret[1], r.ret[1])

DoubleStreamParser_next_initial(self, rd, checks) ==
    DoubleStreamParser_first(self, ReaderRead(rd, 64, checks))

\* line 113-115 and 122-124: r is reader.read(meaningful_bit_count).unwrap();
\* the xor is the payload << tz, the value is the previous one ^ the xor
DoubleStreamParser_sample(self, r, tz) ==
    IF r.panic THEN ParserPanic(self, r.reader)
    ELSE DoubleStreamParser_some(r.reader,
                                 Xor(self.value, Shl(r.ret[1], WrapShift(tz))),
                                 Shl(r.ret[1], WrapShift(tz)))

\* line 108-116: the xor is in the window of the previous xor
DoubleStreamParser_next_reuse(self, rd, checks) ==
    DoubleStreamParser_sample(
        self,
        ReaderReadUnwrap(rd, 64 - PrevTz(self.xor) - PrevLz(self.xor), checks),
        PrevTz(self.xor))

\* line 119-122: b is reader.read(6).unwrap(), the length - 1.  tz is
\* computed on u64 before the payload is read: it underflows when length and
\* lz add up to more than 64.
DoubleStreamParser_window(self, b, lz, checks) ==
    LET meaningful_bit_count == b.ret[1][4] + 1
        tz                   == 64 - meaningful_bit_count - lz
    IN  IF b.panic \/ (checks /\ tz < 0) THEN ParserPanic(self, b.reader)
        ELSE DoubleStreamParser_sample(
                 self, ReaderReadUnwrap(b.reader, meaningful_bit_count, checks), tz)

\* line 118: a is reader.read(5).unwrap(), the leading zeros
DoubleStreamParser_leading(self, a, checks) ==
    IF a.panic THEN ParserPanic(self, a.reader)
    ELSE DoubleStreamParser_window(self, ReaderReadUnwrap(a.reader, 6, checks),
                                   a.ret[1][4], checks)

\* line 117-125: a new window
DoubleStreamParser_next_window(self, rd, checks) ==
    DoubleStreamParser_leading(self, ReaderReadUnwrap(rd, 5, checks), checks)

\* line 107-127: r is the second control bit, unwrapped
DoubleStreamParser_control2(self, r, checks) ==
    IF r.panic THEN ParserPanic(self, r.reader)
    ELSE IF r.ret = Some(Zero64) THEN DoubleStreamParser_next_reuse(self, r.reader, checks)
    ELSE DoubleStreamParser_next_window(self, r.reader, checks)

\* line 102-131: r is reader.read(1), the first control bit
DoubleStreamParser_control1(self, r, checks) ==
    IF r.panic THEN ParserPanic(self, r.reader)
    ELSE IF r.ret = None THEN ParserNone(self, r.reader)
    ELSE IF r.ret = Some(Zero64)
    THEN [state |-> self, reader |-> r.reader, ret |-> Some(self.value), panic |-> FALSE]
    ELSE DoubleStreamParser_control2(self, ReaderReadUnwrap(r.reader, 1, checks), checks)

DoubleStreamParser_next_following(self, rd, checks) ==
    DoubleStreamParser_control1(self, ReaderRead(rd, 1, checks), checks)

\* next(reader): the parser and the reader after it, and what it returned
DoubleStreamParser_next(self, rd, checks) ==
    IF self.tag = "Initial"
    THEN DoubleStreamParser_next_initial(self, rd, checks)
    ELSE DoubleStreamParser_next_following(self, rd, checks)

-----------------------------------------------------------------------------
(* double_stream_lead_trail.rs: the encoder that keeps its window as a     *)
(* count of leading zeros and a count of meaningful bits, both u8.         *)

DoubleStreamStateLeadTrail_Initial == [tag |-> "Initial"]

DoubleStreamStateLeadTrail_Following(v, lz, mc) ==
    [tag |-> "Following", value |-> v, leading_zeros |-> lz, meaningful_count |-> mc]

DoubleStreamLeadTrail_new == DoubleStreamStateLeadTrail_Initial

\* a - b on u8
SubU8(a, b) == [val |-> (a - b) % 256, overflow |-> a < b]

\* a - b - c on u8, left to right
SubSubU8(a, b, c) ==
    [val      |-> SubU8(SubU8(a, b).val, c).val,
     overflow |-> SubU8(a, b).overflow \/ SubU8(SubU8(a, b).val, c).overflow]

\* line 67: prev_tz = 64 - prev_lz - prev_meaningful
DoubleStreamLeadTrail_prev_tz(self) ==
    SubSubU8(64, self.leading_zeros, self.meaningful_count)

\* a window fit that takes the window of the xor it wrote
DoubleStreamLeadTrail_fit_shrinks(self, number_as_bits, xored, prev_tz, checks) ==
    IF checks /\ (ShiftOverflows(prev_tz) \/ SubSubU8(64, prev_tz, self.leading_zeros).overflow)
    THEN [state |-> self, writes |-> <<>>, panic |-> TRUE]
    ELSE [state  |-> DoubleStreamStateLeadTrail_Following(
                         number_as_bits, Min(LeadingZeros(xored), 31),
                         64 - TrailingZeros(xored) - Min(LeadingZeros(xored), 31)),
          writes |-> << <<FromInt(2), 2>>,
                        <<Shr(xored, WrapShift(prev_tz)),
                          SubSubU8(64, prev_tz, self.leading_zeros).val>> >>,
          panic  |-> FALSE]

\* line 69-82: the xor fits into the previous window, which is kept
DoubleStreamLeadTrail_fit(self, number_as_bits, xored, prev_tz, checks) ==
    IF checks /\ (ShiftOverflows(prev_tz) \/ SubSubU8(64, prev_tz, self.leading_zeros).overflow)
    THEN [state |-> self, writes |-> <<>>, panic |-> TRUE]
    ELSE [state  |-> DoubleStreamStateLeadTrail_Following(
                         number_as_bits, self.leading_zeros, self.meaningful_count),
          writes |-> << <<FromInt(2), 2>>,
                        <<Shr(xored, WrapShift(prev_tz)),
                          SubSubU8(64, prev_tz, self.leading_zeros).val>> >>,
          panic  |-> FALSE]

\* line 83-103: a new window; meaningful_count is stored as 64 - tz
DoubleStreamLeadTrail_window(number_as_bits, xored, lz, tz) ==
    [state  |-> DoubleStreamStateLeadTrail_Following(number_as_bits, lz, 64 - tz),
     writes |-> << <<FromInt(3), 2>>, <<FromInt(lz), 5>>, <<FromInt(64 - tz - lz - 1), 6>>,
                   <<Shr(xored, tz), 64 - tz - lz>> >>,
     panic  |-> FALSE]

\* line 61-69: a value that differs from the one before
DoubleStreamLeadTrail_changed(self, number_as_bits, xored, prev_tz, checks) ==
    IF checks /\ prev_tz.overflow
    THEN [state |-> self, writes |-> <<>>, panic |-> TRUE]
    ELSE IF /\ Min(LeadingZeros(xored), 31) >= self.leading_zeros
            /\ TrailingZeros(xored) >= prev_tz.val
    THEN DoubleStreamLeadTrail_fit(self, number_as_bits, xored, prev_tz.val, checks)
    ELSE DoubleStreamLeadTrail_window(number_as_bits, xored,
                                      Min(LeadingZeros(xored), 31), TrailingZeros(xored))

\* a push whose first window is the whole word
DoubleStreamLeadTrail_push_open_window(self, number_as_bits, checks) ==
    IF self.tag = "Initial"
    THEN [state  |-> DoubleStreamStateLeadTrail_Following(number_as_bits, 0, 64),
          writes |-> << <<number_as_bits, 64>> >>,
          panic  |-> FALSE]
    ELSE IF Xor(self.value, number_as_bits) = Zero64
    THEN [state  |-> DoubleStreamStateLeadTrail_Following(
                         number_as_bits, self.leading_zeros, self.meaningful_count),
          writes |-> << <<Zero64, 1>> >>,
          panic  |-> FALSE]
    ELSE DoubleStreamLeadTrail_changed(self, number_as_bits, Xor(self.value, number_as_bits),
                                       DoubleStreamLeadTrail_prev_tz(self), checks)

\* push(number, writer): the state after it and the writes it issues; the
\* arithmetic of a branch comes before its first write
DoubleStreamLeadTrail_push(self, number_as_bits, checks) ==
    IF self.tag = "Initial"
    THEN [state  |-> DoubleStreamStateLeadTrail_Following(number_as_bits, 64, 0),
          writes |-> << <<number_as_bits, 64>> >>,
          panic  |-> FALSE]
    ELSE IF Xor(self.value, number_as_bits) = Zero64
    THEN [state  |-> DoubleStreamStateLeadTrail_Following(
                         number_as_bits, self.leading_zeros, self.meaningful_count),
          writes |-> << <<Zero64, 1>> >>,
          panic  |-> FALSE]
    ELSE DoubleStreamLeadTrail_changed(self, number_as_bits, Xor(self.value, number_as_bits),
                                       DoubleStreamLeadTrail_prev_tz(self), checks)

-----------------------------------------------------------------------------
(* time_and_value_stream.rs *)

\* line 20-23: both pushes done (or the second one panicked)
TimeAndValueStream_pushed(t, v) ==
    [timestamps |-> t.state,
     values     |-> v.state,
     writer     |-> v.writer,
     done       |-> t.done \o v.done,
     panic      |-> v.panic]

\* line 22: t is the timestamp's push on the sink; the value's push follows
TimeAndValueStream_push_value(vs, number, t, checks) ==
    IF t.panic
    THEN [timestamps |-> t.state, values |-> vs, writer |-> t.writer,
          done |-> t.done, panic |-> TRUE]
    ELSE TimeAndValueStream_pushed(
             t, PushOnto(vs, DoubleStreamWriter_push(vs, number), t.writer, checks))

\* a paired push that emits the value before the timestamp
TimeAndValueStream_push_value_first(ts, vs, timestamp, number, w, checks) ==
    LET v == PushOnto(vs, DoubleStreamWriter_push(vs, number), w, checks)
        t == PushOnto(ts, TimestampStreamWriter_push(ts, timestamp, checks), v.writer, checks)
    IN  [timestamps |-> t.state,
         values     |-> v.state,
         writer     |-> t.writer,
         done       |-> v.done \o t.done,
         panic      |-> t.panic]

\* push(timestamp, number, writer): the timestamp's bits, then the value's
TimeAndValueStream_push(ts, vs, timestamp, number, w, checks) ==
    TimeAndValueStream_push_value(
        vs, number,
        PushOnto(ts, TimestampStreamWriter_push(ts, timestamp, checks), w, checks),
        checks)

\* a pair that is None when the value is missing
TimeAndValueIterator_pair_lenient(t, v) ==
    [timestamp_parser |-> t.state,
     value_parser     |-> v.state,
     reader           |-> v.reader,
     ret              |-> IF v.panic \/ v.ret = None THEN None
                          ELSE Some(<<t.ret[1], v.ret[1]>>),
     panic            |-> v.panic]

\* line 49: the pair, once the value is there; a missing value is unwrapped
TimeAndValueIterator_pair(t, v) ==
    [timestamp_parser |-> t.state,
     value_parser     |-> v.state,
     reader           |-> v.reader,
     ret              |-> IF v.panic \/ v.ret = None THEN None
                          ELSE Some(<<t.ret[1], v.ret[1]>>),
     panic            |-> v.panic \/ v.ret = None]

\* line 48-49: t is timestamp_parser.next(reader); the value is read after it
TimeAndValueIterator_value(vp, t, checks) ==
    IF t.panic \/ t.ret = None
    THEN [timestamp_parser |-> t.state, value_parser |-> vp, reader |-> t.reader,
          ret |-> None, panic |-> t.panic]
    ELSE TimeAndValueIterator_pair(t, DoubleStreamParser_next(vp, t.reader, checks))

\* next(): a timestamp, then a value that must be there
TimeAndValueIterator_next(tp, vp, rd, checks) ==
    TimeAndValueIterator_value(vp, TimestampStreamParser_next(tp, rd, checks), checks)

-----------------------------------------------------------------------------
(* lib.rs: IntStream and IntStreamParser, the timestamp codec that writes  *)
(* a delta of deltas in two's complement, truncated to its field.          *)

IntStreamState_Initial(h) == [tag |-> "Initial", header_time |-> h]

IntStreamState_Following(v, d) == [tag |-> "Following", value |-> v, delta |-> d]

\* line 32-38: the first push
IntStream_push_initial(self, number) ==
    LET delta == Sub64(number, self.header_time).val
    IN  [delta    |-> delta,
         writes   |-> << <<delta, 14>> >>,
         accepted |-> LeU64(self.header_time, number) /\ LeU64(delta, Shl(One64, 14)),
         overflow |-> FALSE]

\* line 46-60: the size class of a delta of deltas, as the writes it issues
IntStream_class(delta_of_deltas) ==
    IF delta_of_deltas = Zero64 THEN << <<Zero64, 1>> >>
    ELSE IF LeI64(FromInt(-63), delta_of_deltas) /\ LeI64(delta_of_deltas, FromInt(64))
    THEN << <<FromInt(2), 2>>, <<And(delta_of_deltas, LowMask(7)), 7>> >>
    ELSE IF LeI64(FromInt(-255), delta_of_deltas) /\ LeI64(delta_of_deltas, FromInt(256))
    THEN << <<FromInt(6), 3>>, <<And(delta_of_deltas, LowMask(9)), 9>> >>
    ELSE IF LeI64(FromInt(-2047), delta_of_deltas) /\ LeI64(delta_of_deltas, FromInt(2048))
    THEN << <<FromInt(14), 4>>, <<And(delta_of_deltas, LowMask(12)), 12>> >>
    ELSE << <<FromInt(15), 4>>, <<And(delta_of_deltas, LowMask(32)), 32>> >>

\* line 41-62: a later push
IntStream_push_following(self, number) ==
    LET delta           == Sub64(number, self.value)
        delta_of_deltas == SubI64(delta.val, self.delta)
    IN  [delta    |-> delta.val,
         writes   |-> IntStream_class(delta_of_deltas.val),
         accepted |-> TRUE,
         overflow |-> delta.overflow \/ delta_of_deltas.overflow]

\* push(number, writer): the state after it and the writes it issues; the
\* asserts and the arithmetic come before the first write
IntStream_push(self, number, checks) ==
    LET r == IF self.tag = "Initial"
             THEN IntStream_push_initial(self, number)
             ELSE IntStream_push_following(self, number)
    IN  IF ~r.accepted \/ (checks /\ r.overflow)
        THEN [state |-> self, writes |-> <<>>, panic |-> TRUE]
        ELSE [state  |-> IntStreamState_Following(number, r.delta),
              writes |-> r.writes,
              panic  |-> FALSE]

\* line 127-129: the sample becomes the state, its value is returned
IntStreamParser_some(rd, value, delta) ==
    [state  |-> IntStreamState_Following(value, delta),
     reader |-> rd,
     ret    |-> Some(value),
     panic  |-> FALSE]

\* line 89: r is reader.read(14); the first sample is header_time + delta
IntStreamParser_first(self, r, checks) ==
    IF r.panic THEN ParserPanic(self, r.reader)
    ELSE IF r.ret = None THEN ParserNone(self, r.reader)
    ELSE IF checks /\ Add64(self.header_time, r.ret[1]).overflow
    THEN ParserPanic(self, r.reader)
    ELSE IntStreamParser_some(r.reader, Add64(self.header_time, r.ret[1]).val, r.ret[1])

\* a payload whose sign is propagated from the field's most significant bit on
IntStreamParser_extend_from_msb(delta_of_deltas, num_bits) ==
    IF LeU64(Shl(One64, num_bits - 1), delta_of_deltas)
    THEN Or(delta_of_deltas, Not64(Sub64(Shl(One64, num_bits - 1), One64).val))
    ELSE delta_of_deltas

\* line 112-116: a payload greater than the value of the field's most
\* significant bit has the sign propagated to all 64 bits
IntStreamParser_extend(delta_of_deltas, num_bits) ==
    IF LtU64(Shl(One64, num_bits - 1), delta_of_deltas)
    THEN Or(delta_of_deltas, Not64(Sub64(Shl(One64, num_bits - 1), One64).val))
    ELSE delta_of_deltas

\* line 118-120: the delta of deltas d, as i64, is added to the delta, and
\* the delta to the value
IntStreamParser_add(self, rd, d, new_delta, checks) ==
    IF checks /\ new_delta.overflow THEN ParserPanic(self, rd)
    ELSE IntStreamParser_some(rd, Add64(self.value, new_delta.val).val, new_delta.val)

\* line 111-120: r is reader.read(num_bits).unwrap()
IntStreamParser_apply(self, r, num_bits, checks) ==
    IF r.panic THEN ParserPanic(self, r.reader)
    ELSE IntStreamParser_add(self, r.reader, IntStreamParser_extend(r.ret[1], num_bits),
             AddI64(self.delta, IntStreamParser_extend(r.ret[1], num_bits)), checks)

\* line 111: the payload of the class of num_bits bits
IntStreamParser_payload(self, rd, num_bits, checks) ==
    IntStreamParser_apply(self, ReaderReadUnwrap(rd, num_bits, checks), num_bits, checks)

\* line 105-109: r is the fourth prefix bit, unwrapped: 1110 or 1111
IntStreamParser_prefix4(self, r, checks) ==
    IF r.panic THEN ParserPanic(self, r.reader)
    ELSE IF r.ret = Some(Zero64)
    THEN IntStreamParser_payload(self, r.reader, 12, checks)
    ELSE IntStreamParser_payload(self, r.reader, 32, checks)

\* line 103-104: r is the third prefix bit, unwrapped: 110 or more
IntStreamParser_prefix3(self, r, checks) ==
    IF r.panic THEN ParserPanic(self, r.reader)
    ELSE IF r.ret = Some(Zero64)
    THEN IntStreamParser_payload(self, r.reader, 9, checks)
    ELSE IntStreamParser_prefix4(self, ReaderReadUnwrap(r.reader, 1, checks), checks)

\* line 101-102: r is the second prefix bit, unwrapped: 10 or more
IntStreamParser_prefix2(self, r, checks) ==
    IF r.panic THEN ParserPanic(self, r.reader)
    ELSE IF r.ret = Some(Zero64)
    THEN IntStreamParser_payload(self, r.reader, 7, checks)
    ELSE IntStreamParser_prefix3(self, ReaderReadUnwrap(r.reader, 1, checks), checks)

\* line 92-124: r is reader.read(1), the first prefix bit
IntStreamParser_prefix1(self, r, checks) ==
    IF r.panic THEN ParserPanic(self, r.reader)
    ELSE IF r.ret = None THEN ParserNone(self, r.reader)
    ELSE IF r.ret = Some(Zero64)
    THEN IntStreamParser_some(r.reader, Add64(self.value, self.delta).val, self.delta)
    ELSE IF r.ret = Some(One64)
    THEN IntStreamParser_prefix2(self, ReaderReadUnwrap(r.reader, 1, checks), checks)
    ELSE ParserPanic(self, r.reader)

\* next(reader): the parser and the reader after it, and what it returned
IntStreamParser_next(self, rd, checks) ==
    IF self.tag = "Initial"
    THEN IntStreamParser_first(self, ReaderRead(rd, 14, checks), checks)
    ELSE IntStreamParser_prefix1(self, ReaderRead(rd, 1, checks), checks)

\* lib.rs also holds a DoubleStream and a DoubleStreamParser (line 159-313)
\* that are, statement for statement, the DoubleStreamWriter and the
\* DoubleStreamParser of double_stream.rs (as_bits is to_bits), and a
\* TimeAndValueStream and a TimeAndValueIterator that pair them with the
\* IntStream and the IntStreamParser.

\* line 328-331: push(timestamp, number, writer): the IntStream's bits, then
\* the DoubleStream's
LibTimeAndValueStream_push(ts, vs, timestamp, number, w, checks) ==
    TimeAndValueStream_push_value(
        vs, number,
        PushOnto(ts, IntStream_push(ts, timestamp, checks), w, checks),
        checks)

\* line 353-358: next(): a timestamp, then a value that must be there
LibTimeAndValueIterator_next(tp, vp, rd, checks) ==
    TimeAndValueIterator_value(vp, IntStreamParser_next(tp, rd, checks), checks)

-----------------------------------------------------------------------------
(* The bit buffer on its own: a VecWriter is written to, then a VecReader  *)
(* is built from its fields (or, as in read_empty_vector, from an empty    *)
(* vector) and read from.                                                  *)

MaxWrites == 2

MaxReads == 2

\* the bit counts the calls are issued with (Writer/Reader contract: 0..64)
Counts == {0, 1, WordBits - 1, WordBits}

\* the count low bits of x
Mask(x, count) == And(x, LowMask(count))

\* payloads that honour "bits < 2^count", and one that does not
Payloads(count) ==
    {Mask(Ones64, count), Mask(Alt64, count)} \cup (IF count = 1 THEN {Ones64} ELSE {})

IsMasked(bits, count) == Mask(bits, count) = bits

NoCall == [op |-> "new", bits |-> Zero64, count |-> 0]

\* the bits a reader has not consumed (none in an empty vector)
BitsLeft(rd) == IF Len(rd.bit_vector) = 0 THEN 0 ELSE VecReader_remaining(rd)

Cursor(rd) == [index |-> rd.index, read_bits_current_index |-> rd.read_bits_current_index]

Init ==
    /\ overflow_checks \in BOOLEAN
    /\ panicked = FALSE
    /\ bit_vector = VecWriter_new.bit_vector
    /\ used_bits_last_elm = VecWriter_new.used_bits_last_elm
    /\ phase = "write"
    /\ reader = VecReader_new(<<>>, 0)
    /\ other_reader = VecReader_new(<<>>, 0)
    /\ other_reads = <<>>
    /\ iterator = "none"
    /\ header_time = Zero64
    /\ timestamps = TimestampStreamWriter_new(Zero64)
    /\ values = DoubleStreamWriter_new
    /\ timestamp_parser = TimestampStreamParser_new(Zero64)
    /\ value_parser = DoubleStreamParser_new
    /\ lead_trail = DoubleStreamLeadTrail_new
    /\ call = NoCall
    /\ written = <<>>
    /\ reads = <<>>
    /\ pushed = <<>>
    /\ decoded = <<>>

Writer == [bit_vector |-> bit_vector, used_bits_last_elm |-> used_bits_last_elm]

\* w.write(bits, count)
Write(bits, count) ==
    /\ phase = "write"
    /\ ~panicked
    /\ Len(written) < MaxWrites
    /\ call' = [op |-> "write", bits |-> bits, count |-> count]
    /\ LET r == VecWriter_write(Writer, bits, count)
       IN  IF overflow_checks /\ r.overflow
           THEN /\ panicked' = TRUE
                /\ UNCHANGED <<bit_vector, used_bits_last_elm, written>>
           ELSE /\ bit_vector' = r.bit_vector
                /\ used_bits_last_elm' = r.used_bits_last_elm
                /\ written' = Append(written, <<bits, count>>)
                /\ UNCHANGED panicked
    /\ UNCHANGED <<overflow_checks, phase, reader, reads, codecVars, pushed, decoded, otherVars>>

\* VecReader::new(&w.bit_vector, w.used_bits_last_elm)
NewReader ==
    /\ phase = "write"
    /\ ~panicked
    /\ phase' = "read"
    /\ reader' = VecReader_new(bit_vector, used_bits_last_elm)
    /\ call' = NoCall
    /\ UNCHANGED <<overflow_checks, panicked, bit_vector, used_bits_last_elm,
                   written, reads, codecVars, pushed, decoded, otherVars>>

\* VecReader::new(&vec![], 0)
NewReaderEmpty ==
    /\ phase = "write"
    /\ ~panicked
    /\ phase' = "read"
    /\ reader' = VecReader_new(<<>>, 0)
    /\ call' = NoCall
    /\ UNCHANGED <<overflow_checks, panicked, bit_vector, used_bits_last_elm,
                   written, reads, codecVars, pushed, decoded, otherVars>>

\* r.read(count)
Read(count) ==
    /\ phase = "read"
    /\ ~panicked
    /\ Len(reads) < MaxReads
    /\ call' = [op |-> "read", bits |-> Zero64, count |-> count]
    /\ LET r     == VecReader_read(reader, count)
           panic == (overflow_checks /\ r.overflow) \/ r.oob
       IN  /\ reader' = r.reader
           /\ panicked' = panic
           /\ reads' = Append(reads, [count     |-> count,
                                      before    |-> Cursor(reader),
                                      remaining |-> BitsLeft(reader),
                                      ok        |-> ~panic,
                                      ret       |-> IF panic THEN None ELSE r.ret])
    /\ UNCHANGED <<overflow_checks, bit_vector, used_bits_last_elm, phase, written,
                   codecVars, pushed, decoded, otherVars>>

Next ==
    \/ \E count \in Counts : \E bits \in Payloads(count) : Write(bits, count)
    \/ NewReader
    \/ NewReaderEmpty
    \/ \E count \in Counts : Read(count)

Spec == Init /\ [][Next]_vars

-----------------------------------------------------------------------------
(* Two VecReaders over one buffer: the writer is written to, both readers  *)
(* are built from its fields, and their reads are issued in any order.     *)

\* the counts of the writes and reads: one bit, and a whole word
SharedCounts == {1, WordBits}

\* two VecReader::new(&w.bit_vector, w.used_bits_last_elm)
NewReaders ==
    /\ phase = "write"
    /\ ~panicked
    /\ phase' = "read"
    /\ reader' = VecReader_new(bit_vector, used_bits_last_elm)
    /\ other_reader' = VecReader_new(bit_vector, used_bits_last_elm)
    /\ call' = NoCall
    /\ UNCHANGED <<overflow_checks, panicked, bit_vector, used_bits_last_elm,
                   written, reads, other_reads, iterator, codecVars, pushed, decoded>>

\* other.read(count); `at` is the number of reads the first reader had
\* performed by then
OtherRead(count) ==
    /\ phase = "read"
    /\ ~panicked
    /\ Len(other_reads) < MaxReads
    /\ call' = [op |-> "other_read", bits |-> Zero64, count |-> count]
    /\ LET r     == VecReader_read(other_reader, count)
           panic == (overflow_checks /\ r.overflow) \/ r.oob
       IN  /\ other_reader' = r.reader
           /\ panicked' = panic
           /\ other_reads' = Append(other_reads, [count     |-> count,
                                                  before    |-> Cursor(other_reader),
                                                  remaining |-> BitsLeft(other_reader),
                                                  ok        |-> ~panic,
                                                  ret       |-> IF panic THEN None ELSE r.ret,
                                                  at        |-> Len(reads)])
    /\ UNCHANGED <<overflow_checks, bit_vector, used_bits_last_elm, phase, written,
                   reader, reads, iterator, codecVars, pushed, decoded>>

NextShared ==
    \/ \E count \in SharedCounts : \E bits \in Payloads(count) : Write(bits, count)
    \/ NewReaders
    \/ \E count \in SharedCounts : Read(count)
    \/ \E count \in SharedCounts : OtherRead(count)

SpecShared == Init /\ [][NextShared]_vars

-----------------------------------------------------------------------------
(* The codecs on a VecWriter and a VecReader: samples are pushed, then an  *)
(* iterator is built over the writer's fields and stepped.                 *)

MaxPushes == 3

MaxNexts == MaxPushes + 1

FreshSink ==
    /\ overflow_checks \in BOOLEAN
    /\ panicked = FALSE
    /\ bit_vector = VecWriter_new.bit_vector
    /\ used_bits_last_elm = VecWriter_new.used_bits_last_elm
    /\ phase = "write"
    /\ reader = VecReader_new(<<>>, 0)
    /\ other_reader = VecReader_new(<<>>, 0)
    /\ other_reads = <<>>
    /\ iterator = "none"
    /\ call = NoCall
    /\ written = <<>>
    /\ reads = <<>>
    /\ pushed = <<>>
    /\ decoded = <<>>

\* the encoders and decoders as constructed for the header time h
NewCodecs(h) ==
    /\ header_time = h
    /\ timestamps = TimestampStreamWriter_new(h)
    /\ values = DoubleStreamWriter_new
    /\ timestamp_parser = TimestampStreamParser_new(h)
    /\ value_parser = DoubleStreamParser_new
    /\ lead_trail = DoubleStreamLeadTrail_new

\* the header times of the tests (0 and 10000), and one above 2^63
Headers == {Zero64, FromInt(10000), <<32768, 0, 0, 0>>}

\* the first sample as an offset from the header time: the ends of the
\* accepted range, and one offset on either side of it
FirstDeltas == {-1, 0, 5, 16383, 16384, 16385}

\* a later sample as an offset from the one before: one offset for each
\* size class of the delta of deltas, and a step back
Steps == {-1, 0, 60, 300, 5000}

\* the timestamp `offset` away from the last one pushed (from the header
\* time, before the first push)
TimestampAt(offset) ==
    Add64(IF timestamps.tag = "Initial" THEN timestamps.header_time ELSE timestamps.value,
          FromInt(offset)).val

Offsets == IF timestamps.tag = "Initial" THEN FirstDeltas ELSE Steps

\* the state after the push that returned r
TimestampPush_returns(r, number) ==
    /\ panicked' = r.panic
    /\ bit_vector' = r.writer.bit_vector
    /\ used_bits_last_elm' = r.writer.used_bits_last_elm
    /\ written' = written \o r.done
    /\ timestamps' = r.state
    /\ pushed' = IF r.panic THEN pushed ELSE Append(pushed, number)

\* c.push(number, &mut w)
TimestampPush(number) ==
    /\ phase = "write"
    /\ ~panicked
    /\ Len(pushed) < MaxPushes
    /\ call' = [op |-> "push", bits |-> number, count |-> 0]
    /\ TimestampPush_returns(
           PushOnto(timestamps,
           TimestampStreamWriter_push(timestamps, number, overflow_checks),
           Writer, overflow_checks),
           number)
    /\ UNCHANGED <<overflow_checks, phase, reader, header_time, lead_trail, values,
                   timestamp_parser, value_parser, reads, decoded, otherVars>>

\* TimestampStreamIterator::new(VecReader::new(&w.bit_vector, w.used_bits_last_elm), header_time)
TimestampNewIterator ==
    /\ phase = "write"
    /\ ~panicked
    /\ phase' = "read"
    /\ reader' = VecReader_new(bit_vector, used_bits_last_elm)
    /\ timestamp_parser' = TimestampStreamParser_new(header_time)
    /\ call' = NoCall
    /\ iterator' = "timestamp"
    /\ UNCHANGED <<overflow_checks, panicked, sinkVars, header_time, lead_trail, timestamps, values,
                   value_parser, written, reads, pushed, decoded, other_reader, other_reads>>

\* the state after the next() that returned r
TimestampNext_returns(r) ==
    /\ panicked' = r.panic
    /\ reader' = r.reader
    /\ timestamp_parser' = r.state
    /\ decoded' = IF r.panic THEN decoded ELSE Append(decoded, r.ret)

\* r.next()
TimestampNext ==
    /\ phase = "read"
    /\ ~panicked
    /\ Len(decoded) < MaxNexts
    /\ call' = [op |-> "next", bits |-> Zero64, count |-> 0]
    /\ TimestampNext_returns(
           TimestampStreamParser_next(timestamp_parser, reader, overflow_checks))
    /\ UNCHANGED <<overflow_checks, phase, sinkVars, header_time, lead_trail, timestamps, values,
                   value_parser, written, reads, pushed, otherVars>>

InitTimestamp == FreshSink /\ \E h \in Headers : NewCodecs(h)

NextTimestamp ==
    \/ \E offset \in Offsets : TimestampPush(TimestampAt(offset))
    \/ TimestampNewIterator
    \/ TimestampNext

SpecTimestamp == InitTimestamp /\ [][NextTimestamp]_vars

\* The size classes of the delta of deltas: the first sample is 3000 after the
\* header time 0, and every later sample is 3000 + b after the one before,
\* where b is 0, an end of a class (-63, 64, -255, 256, -2047, 2048) or the
\* value next to it: the second push has the delta of deltas b, the third
\* the difference of two such values.
ClassBoundaries ==
    {0, 1, -1, 64, 65, -63, -64, 256, 257, -255, -256, 2048, 2049, -2047, -2048}

ClassOffsets ==
    IF timestamps.tag = "Initial" THEN {3000} ELSE {3000 + b : b \in ClassBoundaries}

InitSizeClasses == FreshSink /\ NewCodecs(Zero64)

NextSizeClasses ==
    \/ \E offset \in ClassOffsets : TimestampPush(TimestampAt(offset))
    \/ TimestampNewIterator
    \/ TimestampNext

SpecSizeClasses == InitSizeClasses /\ [][NextSizeClasses]_vars

\* A truncated stream: the iterator is built over the first n bits of the
\* encoder's buffer, the words that hold them and the count of bits in the
\* last of these words.
\* TimestampStreamIterator::new(VecReader::new(&data, num_bits_last_elm), header_time)
TimestampTruncatedIterator(n) ==
    /\ phase = "write"
    /\ ~panicked
    /\ phase' = "read"
    /\ reader' = IF n = 0
                 THEN VecReader_new(<<bit_vector[1]>>, 0)
                 ELSE VecReader_new(SubSeq(bit_vector, 1, ((n - 1) \div WordBits) + 1),
                                    n - ((n - 1) \div WordBits) * WordBits)
    /\ timestamp_parser' = TimestampStreamParser_new(header_time)
    /\ call' = NoCall
    /\ iterator' = "timestamp"
    /\ UNCHANGED <<overflow_checks, panicked, sinkVars, header_time, lead_trail, timestamps, values,
                   value_parser, written, reads, pushed, decoded, other_reader, other_reads>>

NextTruncated ==
    \/ \E offset \in Offsets : TimestampPush(TimestampAt(offset))
    \/ \E n \in 0..VecWriter_len(Writer) : TimestampTruncatedIterator(n)
    \/ TimestampNext

SpecTruncated == InitSizeClasses /\ [][NextTruncated]_vars

\* doubles of the tests of double_stream.rs, by bit pattern: 0.0, 1.0, 11.0,
\* 10.0, the three of read_aligned_64, and the smallest subnormal, whose xor
\* with 0.0 has 63 leading zeros
Doubles ==
    { Zero64, <<16368, 0, 0, 0>>, <<16422, 0, 0, 0>>, <<16420, 0, 0, 0>>,
      <<49234, 49403, 48234, 25904>>, <<49234, 49301, 18961, 64130>>,
      <<16476, 38936, 11395, 58357>>, One64 }

\* the state after the push that returned r
DoublePush_returns(r, number) ==
    /\ panicked' = r.panic
    /\ bit_vector' = r.writer.bit_vector
    /\ used_bits_last_elm' = r.writer.used_bits_last_elm
    /\ written' = written \o r.done
    /\ values' = r.state
    /\ pushed' = IF r.panic THEN pushed ELSE Append(pushed, number)

\* c.push(number, &mut w)
DoublePush(number) ==
    /\ phase = "write"
    /\ ~panicked
    /\ Len(pushed) < MaxPushes
    /\ call' = [op |-> "push", bits |-> number, count |-> 0]
    /\ DoublePush_returns(
           PushOnto(values, DoubleStreamWriter_push(values, number),
           Writer, overflow_checks),
           number)
    /\ UNCHANGED <<overflow_checks, phase, reader, header_time, lead_trail, timestamps,
                   timestamp_parser, value_parser, reads, decoded, otherVars>>

\* DoubleStreamIterator::new(VecReader::new(&w.bit_vector, w.used_bits_last_elm))
DoubleNewIterator ==
    /\ phase = "write"
    /\ ~panicked
    /\ phase' = "read"
    /\ reader' = VecReader_new(bit_vector, used_bits_last_elm)
    /\ value_parser' = DoubleStreamParser_new
    /\ call' = NoCall
    /\ iterator' = "double"
    /\ UNCHANGED <<overflow_checks, panicked, sinkVars, header_time, lead_trail, timestamps, values,
                   timestamp_parser, written, reads, pushed, decoded, other_reader, other_reads>>

\* the state after the next() that returned r
DoubleNext_returns(r) ==
    /\ panicked' = r.panic
    /\ reader' = r.reader
    /\ value_parser' = r.state
    /\ decoded' = IF r.panic THEN decoded ELSE Append(decoded, r.ret)

\* r.next()
DoubleNext ==
    /\ phase = "read"
    /\ ~panicked
    /\ Len(decoded) < MaxNexts
    /\ call' = [op |-> "next", bits |-> Zero64, count |-> 0]
    /\ DoubleNext_returns(
           DoubleStreamParser_next(value_parser, reader, overflow_checks))
    /\ UNCHANGED <<overflow_checks, phase, sinkVars, header_time, lead_trail, timestamps, values,
                   timestamp_parser, written, reads, pushed, otherVars>>

InitDouble == FreshSink /\ NewCodecs(Zero64)

NextDouble ==
    \/ \E number \in Doubles : DoublePush(number)
    \/ DoubleNewIterator
    \/ DoubleNext

SpecDouble == InitDouble /\ [][NextDouble]_vars

\* the state after the push that returned r
LeadTrailPush_returns(r, number) ==
    /\ panicked' = r.panic
    /\ bit_vector' = r.writer.bit_vector
    /\ used_bits_last_elm' = r.writer.used_bits_last_elm
    /\ written' = written \o r.done
    /\ lead_trail' = r.state
    /\ pushed' = IF r.panic THEN pushed ELSE Append(pushed, number)

\* c.push(number, &mut w) on the DoubleStreamLeadTrail
LeadTrailPush(number) ==
    /\ phase = "write"
    /\ ~panicked
    /\ Len(pushed) < MaxPushes
    /\ call' = [op |-> "push_lead_trail", bits |-> number, count |-> 0]
    /\ LeadTrailPush_returns(
           PushOnto(lead_trail,
           DoubleStreamLeadTrail_push(lead_trail, number, overflow_checks),
           Writer, overflow_checks),
           number)
    /\ UNCHANGED <<overflow_checks, phase, reader, header_time, timestamps, values,
                   timestamp_parser, value_parser, reads, decoded, otherVars>>

\* The two value encoders, each with its own state, pushed to in any order
\* on one sink.
InitLeadTrail == FreshSink /\ NewCodecs(Zero64)

\* 0.0, 1.0, 11.0 and the smallest subnormal
LeadTrailDoubles == {Zero64, <<16368, 0, 0, 0>>, <<16422, 0, 0, 0>>, One64}

NextLeadTrail ==
    \/ \E number \in LeadTrailDoubles : DoublePush(number)
    \/ \E number \in LeadTrailDoubles : LeadTrailPush(number)

SpecLeadTrail == InitLeadTrail /\ [][NextLeadTrail]_vars

\* the pairs pushed: the first timestamp as an offset from the header time,
\* a later one as an offset from the one before, and the value
PairHeaders == {Zero64, FromInt(10000)}

PairFirstDeltas == {5, 16383}

PairSteps == {0, 5000}

\* 1.0, 11.0 and 10.0
PairDoubles == {<<16368, 0, 0, 0>>, <<16422, 0, 0, 0>>, <<16420, 0, 0, 0>>}

PairOffsets == IF timestamps.tag = "Initial" THEN PairFirstDeltas ELSE PairSteps

\* the state after the push that returned r
PairPush_returns(r, timestamp, number) ==
    /\ panicked' = r.panic
    /\ bit_vector' = r.writer.bit_vector
    /\ used_bits_last_elm' = r.writer.used_bits_last_elm
    /\ written' = written \o r.done
    /\ timestamps' = r.timestamps
    /\ values' = r.values
    /\ pushed' = IF r.panic THEN pushed ELSE Append(pushed, <<timestamp, number>>)

\* c.push(timestamp, value, &mut w)
PairPush(timestamp, number) ==
    /\ phase = "write"
    /\ ~panicked
    /\ Len(pushed) < MaxPushes
    /\ call' = [op |-> "push", bits |-> timestamp, count |-> 0]
    /\ PairPush_returns(
           TimeAndValueStream_push(timestamps, values, timestamp, number,
           Writer, overflow_checks),
           timestamp, number)
    /\ UNCHANGED <<overflow_checks, phase, reader, header_time, lead_trail,
                   timestamp_parser, value_parser, reads, decoded, otherVars>>

\* TimeAndValueIterator::new(VecReader::new(&w.bit_vector, w.used_bits_last_elm), header_time)
PairNewIterator ==
    /\ phase = "write"
    /\ ~panicked
    /\ phase' = "read"
    /\ reader' = VecReader_new(bit_vector, used_bits_last_elm)
    /\ timestamp_parser' = TimestampStreamParser_new(header_time)
    /\ value_parser' = DoubleStreamParser_new
    /\ call' = NoCall
    /\ iterator' = "pair"
    /\ UNCHANGED <<overflow_checks, panicked, sinkVars, header_time, lead_trail, timestamps, values,
                   written, reads, pushed, decoded, other_reader, other_reads>>

\* the state after the next() that returned r
PairNext_returns(r) ==
    /\ panicked' = r.panic
    /\ reader' = r.reader
    /\ timestamp_parser' = r.timestamp_parser
    /\ value_parser' = r.value_parser
    /\ decoded' = IF r.panic THEN decoded ELSE Append(decoded, r.ret)

\* r.next()
PairNext ==
    /\ phase = "read"
    /\ ~panicked
    /\ Len(decoded) < MaxNexts
    /\ call' = [op |-> "next", bits |-> Zero64, count |-> 0]
    /\ PairNext_returns(
           TimeAndValueIterator_next(timestamp_parser, value_parser, reader,
           overflow_checks))
    /\ UNCHANGED <<overflow_checks, phase, sinkVars, header_time, lead_trail, timestamps, values,
                   written, reads, pushed, otherVars>>

InitPair == FreshSink /\ \E h \in PairHeaders : NewCodecs(h)

NextPair ==
    \/ \E offset \in PairOffsets : \E number \in PairDoubles :
           PairPush(TimestampAt(offset), number)
    \/ PairNewIterator
    \/ PairNext

SpecPair == InitPair /\ [][NextPair]_vars

-----------------------------------------------------------------------------
(* The three iterators side by side: one of the three encoders is pushed   *)
(* to, then the iterator of its kind is built over the buffer and stepped  *)
(* to the end of the stream and beyond.                                    *)

\* the encoder that has been pushed to: "none" before the first push
Pushing ==
    IF timestamps.tag = "Following" /\ values.tag = "Following" THEN "pair"
    ELSE IF timestamps.tag = "Following" THEN "timestamp"
    ELSE IF values.tag = "Following" THEN "double"
    ELSE "none"

InitIterators == FreshSink /\ NewCodecs(Zero64)

NextIterators ==
    \/ \E offset \in PairOffsets :
           Pushing \in {"none", "timestamp"} /\ TimestampPush(TimestampAt(offset))
    \/ Pushing \in {"none", "timestamp"} /\ TimestampNewIterator
    \/ iterator = "timestamp" /\ TimestampNext
    \/ \E number \in PairDoubles :
           Pushing \in {"none", "double"} /\ DoublePush(number)
    \/ Pushing \in {"none", "double"} /\ DoubleNewIterator
    \/ iterator = "double" /\ DoubleNext
    \/ \E offset \in PairOffsets : \E number \in PairDoubles :
           Pushing \in {"none", "pair"} /\ PairPush(TimestampAt(offset), number)
    \/ Pushing \in {"none", "pair"} /\ PairNewIterator
    \/ iterator = "pair" /\ PairNext

SpecIterators == InitIterators /\ [][NextIterators]_vars

\* Partial access to a paired stream: the iterator is built over the first n
\* bits of the encoder's buffer.
\* TimeAndValueIterator::new(VecReader::new(&data, num_bits_last_elm), header_time)
PairTruncatedIterator(n) ==
    /\ phase = "write"
    /\ ~panicked
    /\ phase' = "read"
    /\ reader' = IF n = 0
                 THEN VecReader_new(<<bit_vector[1]>>, 0)
                 ELSE VecReader_new(SubSeq(bit_vector, 1, ((n - 1) \div WordBits) + 1),
                                    n - ((n - 1) \div WordBits) * WordBits)
    /\ timestamp_parser' = TimestampStreamParser_new(header_time)
    /\ value_parser' = DoubleStreamParser_new
    /\ call' = NoCall
    /\ iterator' = "pair"
    /\ UNCHANGED <<overflow_checks, panicked, sinkVars, header_time, lead_trail, timestamps, values,
                   written, reads, pushed, decoded, other_reader, other_reads>>

\* the stream is whole, or cut 1, 2, 64 or 65 bits before its end: in the
\* last value, or in the timestamp before it
NextPairTruncated ==
    \/ \E offset \in PairOffsets : \E number \in PairDoubles :
           PairPush(TimestampAt(offset), number)
    \/ \E cut \in {0, 1, 2, WordBits, WordBits + 1} :
           cut <= VecWriter_len(Writer) /\ PairTruncatedIterator(VecWriter_len(Writer) - cut)
    \/ PairNext

SpecPairTruncated == InitIterators /\ [][NextPairTruncated]_vars

\* The codec of lib.rs on a VecWriter and a VecReader: the IntStream is kept
\* in `timestamps` (the name of the field of lib.rs's TimeAndValueStream that
\* holds it) and the IntStreamParser in `timestamp_parser`.
\* The first sample as an offset from the header time: the ends of the
\* accepted range, 3000, and one offset on either side of the range
IntFirstDeltas == {Ones64, Zero64, FromInt(3000), FromInt(16383), FromInt(16384), FromInt(16385)}

\* A later sample as an offset from the one before: 3000 + b for b the ends
\* of the size classes and their neighbours, 3000 + 2^31 - 1, 3000 + 2^31,
\* and a step back
IntSteps ==
    {FromInt(3000 + b) : b \in ClassBoundaries}
        \cup {<<0, 0, 32768, 2999>>, <<0, 0, 32768, 3000>>, Ones64}

IntOffsets == IF timestamps.tag = "Initial" THEN IntFirstDeltas ELSE IntSteps

\* the timestamp `offset` away from the last one pushed
IntAt(offset) ==
    Add64(IF timestamps.tag = "Initial" THEN timestamps.header_time ELSE timestamps.value,
          offset).val

\* c.push(number, &mut w) on an IntStream
IntPush(number) ==
    /\ phase = "write"
    /\ ~panicked
    /\ Len(pushed) < MaxPushes
    /\ call' = [op |-> "push", bits |-> number, count |-> 0]
    /\ TimestampPush_returns(
           PushOnto(timestamps,
           IntStream_push(timestamps, number, overflow_checks),
           Writer, overflow_checks),
           number)
    /\ UNCHANGED <<overflow_checks, phase, reader, header_time, lead_trail, values,
                   timestamp_parser, value_parser, reads, decoded, otherVars>>

\* IntStreamIterator::new(VecReader::new(w.bit_vector, w.used_bits_last_elm), header_time)
IntNewIterator ==
    /\ phase = "write"
    /\ ~panicked
    /\ phase' = "read"
    /\ reader' = VecReader_new(bit_vector, used_bits_last_elm)
    /\ timestamp_parser' = IntStreamState_Initial(header_time)
    /\ call' = NoCall
    /\ iterator' = "int"
    /\ UNCHANGED <<overflow_checks, panicked, sinkVars, header_time, lead_trail, timestamps, values,
                   value_parser, written, reads, pushed, decoded, other_reader, other_reads>>

\* r.next() on an IntStreamIterator
IntNext ==
    /\ phase = "read"
    /\ ~panicked
    /\ Len(decoded) < MaxNexts
    /\ call' = [op |-> "next", bits |-> Zero64, count |-> 0]
    /\ TimestampNext_returns(
           IntStreamParser_next(timestamp_parser, reader, overflow_checks))
    /\ UNCHANGED <<overflow_checks, phase, sinkVars, header_time, lead_trail, timestamps, values,
                   value_parser, written, reads, pushed, otherVars>>

\* the pairs pushed through lib.rs's TimeAndValueStream: the timestamp as an
\* offset from the one before, and the value (1.0 or 11.0)
IntPairOffsets ==
    IF timestamps.tag = "Initial" THEN {FromInt(3000)} ELSE {FromInt(3000), FromInt(3064)}

IntPairDoubles == {<<16368, 0, 0, 0>>, <<16422, 0, 0, 0>>}

\* c.push(timestamp, value, &mut w) on lib.rs's TimeAndValueStream, whose
\* IntStream is `timestamps` and whose DoubleStream is `values`
IntPairPush(timestamp, number) ==
    /\ phase = "write"
    /\ ~panicked
    /\ Len(pushed) < MaxPushes
    /\ call' = [op |-> "push", bits |-> timestamp, count |-> 0]
    /\ PairPush_returns(
           LibTimeAndValueStream_push(timestamps, values, timestamp, number,
           Writer, overflow_checks),
           timestamp, number)
    /\ UNCHANGED <<overflow_checks, phase, reader, header_time, lead_trail,
                   timestamp_parser, value_parser, reads, decoded, otherVars>>

\* lib.rs's TimeAndValueIterator::new(VecReader::new(w.bit_vector, w.used_bits_last_elm), header_time)
IntPairNewIterator ==
    /\ phase = "write"
    /\ ~panicked
    /\ phase' = "read"
    /\ reader' = VecReader_new(bit_vector, used_bits_last_elm)
    /\ timestamp_parser' = IntStreamState_Initial(header_time)
    /\ value_parser' = DoubleStreamParser_new
    /\ call' = NoCall
    /\ iterator' = "pair"
    /\ UNCHANGED <<overflow_checks, panicked, sinkVars, header_time, lead_trail, timestamps, values,
                   written, reads, pushed, decoded, other_reader, other_reads>>

\* next() of lib.rs's TimeAndValueIterator on the reader and the two parsers;
\* from then on the reader has been stepped by a paired iterator
IntPairNext ==
    /\ phase = "read"
    /\ ~panicked
    /\ Len(decoded) < MaxNexts
    /\ call' = [op |-> "next", bits |-> Zero64, count |-> 0]
    /\ PairNext_returns(
           LibTimeAndValueIterator_next(timestamp_parser, value_parser, reader,
           overflow_checks))
    /\ iterator' = "pair"
    /\ UNCHANGED <<overflow_checks, phase, sinkVars, header_time, lead_trail, timestamps, values,
                   written, reads, pushed, other_reader, other_reads>>

\* the header times of lib.rs's tests: 0, and the 10000 of time_and_value
InitInt ==
    /\ FreshSink
    /\ \E h \in {Zero64, FromInt(10000)} :
           /\ header_time = h
           /\ timestamps = IntStreamState_Initial(h)
           /\ values = DoubleStreamWriter_new
           /\ timestamp_parser = IntStreamState_Initial(h)
           /\ value_parser = DoubleStreamParser_new
           /\ lead_trail = DoubleStreamLeadTrail_new

NextInt ==
    \/ \E offset \in IntOffsets : IntPush(IntAt(offset))
    \/ \E offset \in IntPairOffsets : \E number \in IntPairDoubles :
           IntPairPush(IntAt(offset), number)
    \/ IntNewIterator
    \/ IntPairNewIterator
    \/ IntNext
    \/ IntPairNext

SpecInt == InitInt /\ [][NextInt]_vars

-----------------------------------------------------------------------------
(* Properties of the bit buffer *)

\* the count low bits of each write, most significant first, in call order
RECURSIVE ExpectedBits(_)
ExpectedBits(log) ==
    IF log = <<>> THEN <<>>
    ELSE ExpectedBits(SubSeq(log, 1, Len(log) - 1))
            \o SubSeq(Bits(log[Len(log)][1]), WordBits - log[Len(log)][2] + 1, WordBits)

RECURSIVE SumCounts(_)
SumCounts(log) ==
    IF log = <<>> THEN 0 ELSE SumCounts(SubSeq(log, 1, Len(log) - 1)) + log[Len(log)][2]

\* the first n bits of a word vector: bit k (from 0) is bit 63 - k % 64 of
\* word k \div 64
BufferBits(v, n) ==
    [k \in 1..n |-> BitAt(v[((k - 1) \div WordBits) + 1], ((k - 1) % WordBits) + 1)]

AllMasked == \A i \in 1..Len(written) : IsMasked(written[i][1], written[i][2])

PositiveCounts == \A i \in 1..Len(written) : written[i][2] >= 1

\* the cursor a read left behind: the next read's, or the reader's
CursorAfter(i) == IF i < Len(reads) THEN reads[i + 1].before ELSE Cursor(reader)

ReaderAt(cursor) ==
    [reader EXCEPT !.index = cursor.index,
                   !.read_bits_current_index = cursor.read_bits_current_index]

\* the reader borrows the buffer the writer produced
ReadsWriterBuffer == phase = "read" /\ reader.bit_vector = bit_vector

\* reads 1..k were issued with the counts of writes 1..k
InStep(k) == k <= Len(written) /\ \A j \in 1..k : reads[j].count = written[j][2]

\* C1: with every write of 1..64 masked bits, the reads issued with the same
\* counts in the same order return Some of the written bits, and every
\* further read of a positive count returns None.
C1_RoundTrip ==
    (ReadsWriterBuffer /\ AllMasked /\ PositiveCounts) =>
        \A k \in 1..Len(reads) :
            /\ InStep(k) => reads[k].ok /\ reads[k].ret = Some(written[k][1])
            /\ ( /\ k > Len(written)
                 /\ InStep(Len(written))
                 /\ \A j \in (Len(written) + 1)..k : reads[j].count >= 1 )
               => reads[k].ok /\ reads[k].ret = None

\* C5: a read of more bits than remain returns None and leaves the cursor
\* where it was, and a read that follows it returns what it would have
\* returned from the cursor before the failed read.
C5_FailedReadKeepsCursor ==
    \A i \in 1..Len(reads) :
        reads[i].remaining < reads[i].count =>
            /\ reads[i].ok
            /\ reads[i].ret = None
            /\ CursorAfter(i) = reads[i].before
            /\ (i < Len(reads) /\ reads[i + 1].ok) =>
                   reads[i + 1].ret =
                       VecReader_read(ReaderAt(reads[i].before), reads[i + 1].count).ret

\* a failed read of a buffer with bits left, followed by a read that fits
C5_Witness ==
    \E i \in 1..(Len(reads) - 1) :
        /\ reads[i].remaining < reads[i].count
        /\ reads[i].remaining > 0
        /\ reads[i + 1].count >= 1
        /\ reads[i + 1].ok
        /\ reads[i + 1].ret # None

\* C6: used_bits_last_elm is in 0..64 and len() is the sum of the counts of
\* the writes performed.
C6_LenIsSumOfCounts ==
    /\ used_bits_last_elm \in 0..WordBits
    /\ VecWriter_len(Writer) = SumCounts(written)

\* two writes, the second split over two words
C6_Witness ==
    /\ Len(written) >= 2
    /\ Len(bit_vector) = 2
    /\ used_bits_last_elm \in 1..(WordBits - 1)

\* C7: the k-th bit written is bit 63 - k % 64 of word k \div 64, after any
\* number of later masked writes.
C7_MsbFirstAppendOnly ==
    AllMasked => BufferBits(bit_vector, VecWriter_len(Writer)) = ExpectedBits(written)

\* 63 alternating bits, then 64 that straddle the word boundary
C7_Witness ==
    /\ written = << <<Mask(Alt64, WordBits - 1), WordBits - 1>>, <<Alt64, WordBits>> >>
    /\ VecWriter_len(Writer) = 2 * WordBits - 1

\* a buffer of no bits: no word at all, or one word with no bit in use
ZeroLength(rd) ==
    \/ Len(rd.bit_vector) = 0
    \/ Len(rd.bit_vector) = 1 /\ rd.num_bits_last_elm = 0

\* C8 as stated: over a buffer of zero bits every read, whatever the count,
\* returns None without failing.
C8_EmptyAnyCount ==
    (phase = "read" /\ ZeroLength(reader)) =>
        \A i \in 1..Len(reads) : reads[i].ok /\ reads[i].ret = None

\* C8 amended: over a buffer of zero bits every read of a positive count
\* returns None without failing, and over an empty word vector so does a
\* read of count 0.
C8_EmptyPositiveCount ==
    (phase = "read" /\ ZeroLength(reader)) =>
        \A i \in 1..Len(reads) :
            (reads[i].count >= 1 \/ Len(reader.bit_vector) = 0) =>
                reads[i].ok /\ reads[i].ret = None

\* a fresh writer's buffer (one word, no bit in use) read with count 64
C8_Witness ==
    /\ phase = "read"
    /\ Len(reader.bit_vector) = 1
    /\ reader.num_bits_last_elm = 0
    /\ \E i \in 1..Len(reads) : reads[i].count = WordBits /\ reads[i].ret = None

\* C9: a call with count 0 does not fail; as a write it leaves the bits and
\* the length of the buffer as they were, as a read it leaves the cursor.
C9_ZeroCountNoOp ==
    [][ (call'.count = 0 /\ call' # call) =>
          /\ ~panicked'
          /\ call'.op = "write" =>
                /\ VecWriter_len(Writer)' = VecWriter_len(Writer)
                /\ BufferBits(bit_vector, VecWriter_len(Writer))'
                      = BufferBits(bit_vector, VecWriter_len(Writer))
          /\ call'.op = "read" => Cursor(reader)' = Cursor(reader) ]_vars

\* a read starts at a word boundary with a whole word ahead of it
AlignedRead(rd, before, count) ==
    /\ count = WordBits
    /\ before.read_bits_current_index \in {0, WordBits}
    /\ VecReader_remaining(ReaderAt(before)) >= WordBits

NextWord(before) ==
    reader.bit_vector[before.index + 1
                        + (IF before.read_bits_current_index = WordBits THEN 1 ELSE 0)]

\* C10: a write of 64 bits at used = 0 or used = 64 stores the payload as
\* one whole word, and a read of 64 bits at a word boundary returns the next
\* whole word without failing.
C10_Aligned64 ==
    /\ \A i \in 1..Len(written) :
          LET before == SumCounts(SubSeq(written, 1, i - 1))
          IN  (written[i][2] = WordBits /\ before % WordBits = 0)
                  => /\ Len(bit_vector) > (before \div WordBits)
                     /\ bit_vector[(before \div WordBits) + 1] = written[i][1]
    /\ phase = "read" =>
          \A i \in 1..Len(reads) :
              AlignedRead(reader, reads[i].before, reads[i].count)
                  => reads[i].ok /\ reads[i].ret = Some(NextWord(reads[i].before))

\* the ways a write of a + b bits is split into one of a and one of b bits
Splits == {<<1, 1>>, <<1, 63>>, <<63, 1>>, <<32, 32>>, <<7, 2>>, <<20, 40>>}

\* payloads of n bits: all ones, alternating, and 0x123456789abcdef0 cut to n
SplitPayloads(n) ==
    {Mask(Ones64, n), Mask(Alt64, n), Mask(<<4660, 22136, 39612, 57072>>, n)}

AsWriter(r) == [bit_vector |-> r.bit_vector, used_bits_last_elm |-> r.used_bits_last_elm]

\* w.write(bits >> b, a) followed by w.write(bits mod 2^b, b)
WriteTwice(w, bits, a, b) ==
    LET former == VecWriter_write(w, Shr(bits, b), a)
        latter == VecWriter_write(AsWriter(former), Mask(bits, b), b)
    IN  [writer |-> AsWriter(latter), overflow |-> former.overflow \/ latter.overflow]

\* w.write(bits, a + b)
WriteOnce(w, bits, a, b) ==
    LET r == VecWriter_write(w, bits, a + b)
    IN  [writer |-> AsWriter(r), overflow |-> r.overflow]

\* C11: from every state of the writer, one write of a + b masked bits
\* leaves the same words and the same length as a write of the high a bits
\* followed by a write of the low b bits, and none of the three overflows.
C11_SplitWrite ==
    phase = "write" =>
        \A s \in Splits : \A bits \in SplitPayloads(s[1] + s[2]) :
            /\ WriteOnce(Writer, bits, s[1], s[2]) = WriteTwice(Writer, bits, s[1], s[2])
            /\ ~WriteOnce(Writer, bits, s[1], s[2]).overflow

\* a writer part-way into a word after a write, from which a write of 20 + 40
\* bits crosses into a new word with a bit set in both words, as the two
\* writes do
C11_Witness ==
    /\ phase = "write"
    /\ Len(written) >= 1
    /\ used_bits_last_elm = WordBits - 1
    /\ LET bits == Mask(Ones64, 60)
           one  == WriteOnce(Writer, bits, 20, 40)
       IN  /\ Len(one.writer.bit_vector) = Len(bit_vector) + 1
           /\ one.writer.used_bits_last_elm = 59
           /\ one.writer.bit_vector[Len(bit_vector)] # bit_vector[Len(bit_vector)]
           /\ one.writer.bit_vector[Len(bit_vector) + 1] # Zero64
           /\ one = WriteTwice(Writer, bits, 20, 40)

-----------------------------------------------------------------------------
(* Properties of the codecs *)

\* what the k-th next() returns when the decoder yields the pushed sequence
\* and then None
Yields(k) == IF k <= Len(pushed) THEN Some(pushed[k]) ELSE None

\* the decoder has so far yielded the pushed sequence, without failing
DecodesPushed == ~panicked /\ \A k \in 1..Len(decoded) : decoded[k] = Yields(k)

\* the timestamps ts honour the encoder's contract for the header time h:
\* none before h, the first at most 2^14 after it, none before the one before
TimestampsValid(h, ts) ==
    /\ Len(ts) >= 1 => LeU64(h, ts[1]) /\ LeU64(Sub64(ts[1], h).val, Shl(One64, 14))
    /\ \A k \in 2..Len(ts) : LeU64(ts[k - 1], ts[k])

\* C2: for every header time and every non-decreasing sequence of timestamps
\* whose first is at most 2^14 after the header time, the iterator built with
\* the same header time over the encoder's buffer yields exactly that sequence
C2_TimestampRoundTrip ==
    (phase = "read" /\ TimestampsValid(header_time, pushed)) => DecodesPushed

\* C3: for every sequence of 64-bit patterns, the value iterator over the
\* encoder's buffer yields the same patterns, bit for bit, then None
C3_DoubleRoundTrip == phase = "read" => DecodesPushed

\* C4: for every sequence of pairs whose timestamps honour the timestamp
\* contract, the paired iterator yields the same pairs, then None
C4_PairRoundTrip ==
    (phase = "read" /\ TimestampsValid(header_time, [k \in 1..Len(pushed) |-> pushed[k][1]]))
        => DecodesPushed

\* an i64 of magnitude below 2^30 as an integer; 2^30 stands for any other
AsInt(x) ==
    IF x[1] = 0 /\ x[2] = 0 /\ x[3] < 16384 THEN x[3] * 65536 + x[4]
    ELSE IF x[1] = 65535 /\ x[2] = 65535 /\ x[3] >= 49152
    THEN (x[3] - 65536) * 65536 + x[4]
    ELSE 1073741824

\* the delta of deltas of the push of `number` on the encoder state self
DeltaOfDeltas(self, number) ==
    AsInt(SubI64(Sub64(number, self.value).val, self.delta).val)

\* the prefix, the payload width and the bias of the size class of d
SizeClass(d) ==
    IF d = 0 THEN [prefix |-> <<0>>, width |-> 0, bias |-> 0]
    ELSE IF d \in -63..64 THEN [prefix |-> <<1, 0>>, width |-> 7, bias |-> 63]
    ELSE IF d \in -255..256 THEN [prefix |-> <<1, 1, 0>>, width |-> 9, bias |-> 255]
    ELSE IF d \in -2047..2048 THEN [prefix |-> <<1, 1, 1, 0>>, width |-> 12, bias |-> 2047]
    ELSE [prefix |-> <<1, 1, 1, 1>>, width |-> 32, bias |-> 0]

\* the sink's bits, in the order they were written
SinkBits(v, used) == BufferBits(v, (Len(v) - 1) * WordBits + used)

\* a push completed in this step, on an encoder that had a sample before
LaterPush == Len(pushed') = Len(pushed) + 1 /\ timestamps.tag = "Following"

\* C12: a push after the first leaves the bits written before it in place
\* and appends the prefix of the size class of its delta of deltas followed
\* by as many bits as the class has payload bits.
C12_SizeClasses ==
    [][ LaterPush =>
          LET c == SizeClass(DeltaOfDeltas(timestamps, pushed'[Len(pushed')]))
          IN  /\ VecWriter_len(Writer)' = VecWriter_len(Writer) + Len(c.prefix) + c.width
              /\ \A k \in 1..VecWriter_len(Writer) :
                    SinkBits(bit_vector, used_bits_last_elm)'[k]
                        = SinkBits(bit_vector, used_bits_last_elm)[k]
              /\ \A k \in 1..Len(c.prefix) :
                    SinkBits(bit_vector, used_bits_last_elm)'[VecWriter_len(Writer) + k]
                        = c.prefix[k] ]_vars

\* a push was issued in this step: it completed, or it panicked
PushIssued(op) ==
    /\ call'.op = op
    /\ Len(pushed') = Len(pushed) + 1 \/ (panicked' /\ ~panicked)

\* the step left the sink's earlier bits in place and appended `bits`
Appends(bits) ==
    /\ ~panicked'
    /\ VecWriter_len(Writer)' = VecWriter_len(Writer) + Len(bits)
    /\ SinkBits(bit_vector, used_bits_last_elm)'
           = SinkBits(bit_vector, used_bits_last_elm) \o bits

\* what a value encoder in the state self appends for the pattern `number`
\* when that is its first or repeats the one before
FirstOrRepeat(self, number) ==
    /\ self.tag = "Initial" => Appends(Bits(number))
    /\ (self.tag = "Following" /\ self.value = number) => Appends(<<0>>)

\* C13: the first push of DoubleStreamWriter and of DoubleStreamLeadTrail
\* appends the 64 bits of the value, and a later push of the pattern pushed
\* just before appends one bit, a 0.
C13_RepeatCostsOneBit ==
    [][ /\ PushIssued("push") => FirstOrRepeat(values, call'.bits)
        /\ PushIssued("push_lead_trail") => FirstOrRepeat(lead_trail, call'.bits) ]_vars

\* both encoders have pushed 1.0 on the sink, then the DoubleStreamLeadTrail
\* has pushed it again: 129 bits
C13_Witness ==
    /\ values.tag = "Following"
    /\ lead_trail.tag = "Following"
    /\ call.op = "push_lead_trail"
    /\ written = << <<pushed[1], 64>>, <<pushed[1], 64>>, <<Zero64, 1>> >>
    /\ pushed[1] # Zero64
    /\ VecWriter_len(Writer) = 2 * WordBits + 1
    /\ bit_vector = <<pushed[1], pushed[1], Zero64>>

\* a standalone TimestampStreamWriter and a standalone DoubleStreamWriter on
\* one sink, after one more sample: the timestamp is pushed, then the value
AlternateStep(acc, sample, checks) ==
    LET t == PushOnto(acc.timestamps,
                      TimestampStreamWriter_push(acc.timestamps, sample[1], checks),
                      acc.writer, checks)
        v == PushOnto(acc.values, DoubleStreamWriter_push(acc.values, sample[2]),
                      t.writer, checks)
    IN  [timestamps |-> t.state,
         values     |-> v.state,
         writer     |-> v.writer,
         done       |-> acc.done \o t.done \o v.done,
         ends       |-> acc.ends \o <<VecWriter_len(t.writer), VecWriter_len(v.writer)>>]

\* the two standalone encoders pushed to in turn with the samples, from a
\* fresh sink; ends are the sink's lengths after each of the pushes
RECURSIVE Alternate(_, _, _)
Alternate(samples, h, checks) ==
    IF samples = <<>>
    THEN [timestamps |-> TimestampStreamWriter_new(h),
          values     |-> DoubleStreamWriter_new,
          writer     |-> VecWriter_new,
          done       |-> <<>>,
          ends       |-> <<>>]
    ELSE AlternateStep(Alternate(SubSeq(samples, 1, Len(samples) - 1), h, checks),
                       samples[Len(samples)], checks)

\* C14: the buffer of the paired encoder, and the writes that produced it,
\* are those of a standalone timestamp encoder and a standalone value encoder
\* pushed to in turn on one sink: the bits of each timestamp end before the
\* bits of its value begin, and these before the next timestamp's.
C14_Interleaved ==
    LET alone == Alternate(pushed, header_time, overflow_checks)
    IN  /\ Writer = alone.writer
        /\ written = alone.done
        /\ timestamps = alone.timestamps
        /\ values = alone.values
        /\ \A k \in 1..(Len(alone.ends) - 1) : alone.ends[k] < alone.ends[k + 1]
        /\ Len(alone.ends) = 2 * Len(pushed)
        /\ pushed # <<>> => alone.ends[Len(alone.ends)] = VecWriter_len(Writer)

\* two pairs with different values: 14 bits, 64 bits, the second timestamp's
\* bits and then the second value's, which is not a single 0 bit
C14_Witness ==
    /\ Len(pushed) = 2
    /\ pushed[1][2] # pushed[2][2]
    /\ written[1][2] = 14
    /\ written[2] = <<pushed[1][2], WordBits>>
    /\ written[Len(written)][2] > 1
    /\ VecWriter_len(Writer) > 14 + WordBits + 1 + 2

\* the first timestamp is not before the header time and its distance from
\* it fits the 14-bit field
FitsFirstField(h, number) == LeU64(h, number) /\ IsMasked(Sub64(number, h).val, 14)

\* C15: a first push whose timestamp is before the header time, or whose
\* delta does not fit in 14 bits, panics and leaves the sink as it was; a
\* first push that completes has written, with count 14, a delta that fits.
C15_FirstPushFailsFast ==
    [][ (PushIssued("push") /\ timestamps.tag = "Initial") =>
          /\ ~FitsFirstField(timestamps.header_time, call'.bits) =>
                /\ panicked'
                /\ bit_vector' = bit_vector
                /\ used_bits_last_elm' = used_bits_last_elm
          /\ ~panicked' =>
                /\ FitsFirstField(timestamps.header_time, call'.bits)
                /\ written' = <<<<Sub64(call'.bits, timestamps.header_time).val, 14>>>> ]_vars

\* a reader built over the writer's buffer and read from alone, after the
\* first k reads of the log
RECURSIVE ReaderAlone(_, _)
ReaderAlone(log, k) ==
    IF k = 0 THEN VecReader_new(bit_vector, used_bits_last_elm)
    ELSE VecReader_read(ReaderAlone(log, k - 1), log[k].count).reader

\* whether the k-th read of a reader that reads alone completes, and what
\* it returns
OutcomeAlone(log, k) ==
    LET r  == VecReader_read(ReaderAlone(log, k - 1), log[k].count)
        ok == ~((overflow_checks /\ r.overflow) \/ r.oob)
    IN  [ok |-> ok, ret |-> IF ok THEN r.ret ELSE None]

SameAsAlone(log) ==
    \A k \in 1..Len(log) : [ok |-> log[k].ok, ret |-> log[k].ret] = OutcomeAlone(log, k)

\* C16: with the reads of two readers over one buffer issued in any order,
\* each read of either reader has the outcome it has when that reader reads
\* alone, and the word vector both readers borrow stays the writer's.
C16_IndependentReaders ==
    phase = "read" =>
        /\ SameAsAlone(reads)
        /\ SameAsAlone(other_reads)
        /\ reader.bit_vector = bit_vector
        /\ other_reader.bit_vector = bit_vector

\* the reads alternate, first reader first, two each, and the second
\* reader's reads return the two values that were written
C16_Witness ==
    /\ Len(reads) = 2
    /\ Len(other_reads) = 2
    /\ other_reads[1].at = 1
    /\ other_reads[2].at = 2
    /\ Len(written) = 2
    /\ other_reads[1].ret = Some(written[1][1])
    /\ other_reads[2].ret = Some(written[2][1])
    /\ reads[1].ret # None
    /\ Cursor(reader) # Cursor(other_reader)

\* a next() was issued in this step: it returned, or it panicked
NextIssued ==
    /\ phase = "read"
    /\ call'.op = "next"
    /\ Len(decoded') = Len(decoded) + 1 \/ (panicked' /\ ~panicked)

\* the last next() returned None
Exhausted == decoded # <<>> /\ decoded[Len(decoded)] = None

\* C17: a next() issued after a next() that returned None returns None as
\* well, and leaves the parsers and the reader as they were.
C17_NoneIsTerminal ==
    [][ (Exhausted /\ NextIssued) =>
          /\ ~panicked'
          /\ decoded' = Append(decoded, None)
          /\ reader' = reader
          /\ timestamp_parser' = timestamp_parser
          /\ value_parser' = value_parser ]_vars

\* the paired iterator has yielded the two pairs pushed, then None twice
C17_Witness ==
    /\ iterator = "pair"
    /\ Len(pushed) = 2
    /\ decoded = <<Some(pushed[1]), Some(pushed[2]), None, None>>
    /\ VecReader_remaining(reader) = 0

\* C18: every write an encoder has issued to the sink has a count from 1 to
\* 64 and a payload below 2^count.
C18_CallersMask ==
    \A i \in 1..Len(written) :
        /\ written[i][2] \in 1..WordBits
        /\ IsMasked(written[i][1], written[i][2])

\* the timestamp before the k-th pushed one: the header time before the first
PushedBefore(k) == IF k = 1 THEN header_time ELSE pushed[k - 1]

\* the delta of the k-th pushed timestamp
PushedDelta(k) == Sub64(pushed[k], PushedBefore(k)).val

\* the delta of deltas of the k-th pushed timestamp, k at least 2
PushedDod(k) == AsInt(SubI64(PushedDelta(k), PushedDelta(k - 1)).val)

\* the k-th push is in the last size class, within 32 bits, and no push
\* before it is
FirstFallback(k) ==
    /\ k \in 2..Len(pushed)
    /\ SizeClass(PushedDod(k)).width = 32
    /\ PushedDod(k) \in -1073741823..1073741823
    /\ \A j \in 2..(k - 1) : SizeClass(PushedDod(j)).width # 32

\* C19: a pushed timestamp whose delta of deltas is in the last size class,
\* negative or positive, is the timestamp the decoder yields for it, its
\* delta the previous delta plus that delta of deltas.
C19_FallbackSignExtended ==
    phase = "read" =>
        \A k \in 1..Len(decoded) :
            (FirstFallback(k) /\ PushedDelta(1)[3] = 0 /\ PushedDelta(1)[4] < 16384)
                => decoded[k] = Some(pushed[k])

\* the value of the bits p, most significant first
RECURSIVE BitsValue(_)
BitsValue(p) == IF p = <<>> THEN 0 ELSE 2 * BitsValue(SubSeq(p, 1, Len(p) - 1)) + p[Len(p)]

\* the size class has a biased payload: 7, 9 or 12 bits
Biased(c) == c.width \in {7, 9, 12}

\* the writes of a push whose delta of deltas d is in a biased class: the
\* prefix, then d plus the bias in the payload width
BiasedWrites(d) ==
    << <<FromInt(BitsValue(SizeClass(d).prefix)), Len(SizeClass(d).prefix)>>,
       <<FromInt(d + SizeClass(d).bias), SizeClass(d).width>> >>

\* C20: a push whose delta of deltas d is in the 7-, 9- or 12-bit class
\* writes the prefix and then d + 63, d + 255 or d + 2047, a value from 0
\* that fits the payload width; and the next() that decodes such a push
\* adds exactly d to the delta and yields the pushed timestamp.
C20_BiasedClasses ==
    [][ /\ (LaterPush /\ Biased(SizeClass(DeltaOfDeltas(timestamps, pushed'[Len(pushed')])))) =>
             LET d == DeltaOfDeltas(timestamps, pushed'[Len(pushed')])
             IN  /\ d + SizeClass(d).bias \in 0..(2 ^ SizeClass(d).width - 1)
                 /\ written' = written \o BiasedWrites(d)
        /\ (/\ NextIssued
            /\ Len(decoded) + 1 \in 2..Len(pushed)
            /\ Biased(SizeClass(PushedDod(Len(decoded) + 1)))) =>
             /\ ~panicked'
             /\ decoded' = Append(decoded, Some(pushed[Len(decoded) + 1]))
             /\ AsInt(timestamp_parser'.delta)
                    = AsInt(timestamp_parser.delta) + PushedDod(Len(decoded) + 1) ]_vars

\* the bits the reader was built over
ReaderBits(rd) == (Len(rd.bit_vector) - 1) * WordBits + rd.num_bits_last_elm

\* the bits the k-th push of a timestamp appended: 14 for the first, the
\* prefix and the payload of its size class for a later one
SampleBits(k) ==
    IF k = 1 THEN 14
    ELSE Len(SizeClass(PushedDod(k)).prefix) + SizeClass(PushedDod(k)).width

\* the position in the stream of the bit after the k-th sample
RECURSIVE SampleEnd(_)
SampleEnd(k) == IF k = 0 THEN 0 ELSE SampleEnd(k - 1) + SampleBits(k)

\* what the k-th next() returns over a stream cut after n bits: the k-th
\* sample if the stream holds all its bits, None otherwise
YieldsTruncated(k, n) ==
    IF k <= Len(pushed) /\ SampleEnd(k) <= n THEN Some(pushed[k]) ELSE None

\* C21: over a stream cut at any bit position, written from timestamps that
\* honour the encoder's contract and in which every write fitted its count,
\* the decoder does not fail: it yields every sample that is complete and
\* then None.
C21_TruncatedYieldsNone ==
    (phase = "read" /\ AllMasked /\ TimestampsValid(header_time, pushed)) =>
        /\ ~panicked
        /\ \A k \in 1..Len(decoded) : decoded[k] = YieldsTruncated(k, ReaderBits(reader))

\* the zero bits before the first one bit of x, and after its last: 64 of
\* each when x is zero
ZerosBefore(x) ==
    IF x = Zero64 THEN 64
    ELSE (CHOOSE i \in 1..WordBits : BitAt(x, i) = 1 /\ \A j \in 1..(i - 1) : BitAt(x, j) = 0) - 1

ZerosAfter(x) ==
    IF x = Zero64 THEN 64
    ELSE WordBits - (CHOOSE i \in 1..WordBits :
                        BitAt(x, i) = 1 /\ \A j \in (i + 1)..WordBits : BitAt(x, j) = 0)

\* the xor the k-th push of a value stored: the value itself for the first
PushedXor(k) == IF k = 1 THEN pushed[1] ELSE Xor(pushed[k], pushed[k - 1])

\* the leading-zero count the encoders write: capped at 31
CappedLz(x) == IF ZerosBefore(x) > 31 THEN 31 ELSE ZerosBefore(x)

\* x is not zero and lies within the leading and trailing zeros of w
FitsWindowOf(x, w) ==
    /\ x # Zero64
    /\ CappedLz(x) >= ZerosBefore(w)
    /\ ZerosAfter(x) >= ZerosAfter(w)

\* x is not zero and does not lie within the window of w
ResetsWindowOf(x, w) == x # Zero64 /\ ~FitsWindowOf(x, w)

\* n as a field of w bits, most significant first
FieldBits(n, w) == [i \in 1..w |-> (n \div 2 ^ (w - i)) % 2]

\* the m bits of x from bit lz on, x >> tz in m bits
WindowBits(x, lz, m) == [i \in 1..m |-> BitAt(x, lz + i)]

\* the bits of a window reset for the xor x: 11, lz in 5 bits, m - 1 in 6
\* bits, the m bits of x >> tz
ResetBits(x) ==
    <<1, 1>> \o FieldBits(CappedLz(x), 5)
             \o FieldBits(WordBits - ZerosAfter(x) - CappedLz(x) - 1, 6)
             \o WindowBits(x, CappedLz(x), WordBits - ZerosAfter(x) - CappedLz(x))

\* C22: a push of DoubleStreamWriter whose xor is not zero and does not fit
\* the window appends 11, min(lz, 31) in 5 bits, m - 1 in 6 bits and the m
\* bits of xor >> tz, 13 + m bits in all; and the next() that decodes such a
\* push yields the pushed value and holds exactly that xor.
C22_WindowReset ==
    [][ /\ (/\ PushIssued("push")
            /\ values.tag = "Following"
            /\ ResetsWindowOf(Xor(values.value, call'.bits), values.xor)) =>
              /\ Appends(ResetBits(Xor(values.value, call'.bits)))
              /\ Len(ResetBits(Xor(values.value, call'.bits)))
                     = 13 + WordBits - ZerosAfter(Xor(values.value, call'.bits))
                          - CappedLz(Xor(values.value, call'.bits))
        /\ (/\ NextIssued
            /\ Len(decoded) + 1 \in 2..Len(pushed)
            /\ ResetsWindowOf(PushedXor(Len(decoded) + 1), PushedXor(Len(decoded)))) =>
              /\ ~panicked'
              /\ decoded' = Append(decoded, Some(pushed[Len(decoded) + 1]))
              /\ value_parser'.xor = PushedXor(Len(decoded) + 1) ]_vars

\* the bits of a window fit of the xor x in the window of w: 10, then the
\* bits of x between the leading and the trailing zeros of w
FitBits(x, w) ==
    <<1, 0>> \o WindowBits(x, ZerosBefore(w), WordBits - ZerosBefore(w) - ZerosAfter(w))

\* the step appended at least two bits to the sink, the first of them `bits`
AppendsFirst(bits) ==
    /\ ~panicked'
    /\ VecWriter_len(Writer)' >= VecWriter_len(Writer) + Len(bits)
    /\ SubSeq(SinkBits(bit_vector, used_bits_last_elm)', 1, VecWriter_len(Writer) + Len(bits))
           = SinkBits(bit_vector, used_bits_last_elm) \o bits

\* C23: a push of DoubleStreamWriter whose xor is not zero takes the window
\* fit path exactly when min(lz, 31) >= leading_prev and tz >= trailing_prev,
\* the leading and trailing zeros of the stored xor: it then appends 10 and
\* the meaningful_prev = 64 - leading_prev - trailing_prev bits of
\* xor >> trailing_prev, with meaningful_prev from 1 to 64; otherwise it
\* appends bits that start with 11.
C23_WindowFit ==
    [][ (/\ PushIssued("push")
         /\ values.tag = "Following"
         /\ Xor(values.value, call'.bits) # Zero64) =>
           IF FitsWindowOf(Xor(values.value, call'.bits), values.xor)
           THEN /\ Appends(FitBits(Xor(values.value, call'.bits), values.xor))
                /\ Len(FitBits(Xor(values.value, call'.bits), values.xor)) \in 3..(2 + WordBits)
                /\ VecWriter_len(Writer)' = VecWriter_len(Writer) + 2 + WordBits
                       - ZerosBefore(values.xor) - ZerosAfter(values.xor)
           ELSE AppendsFirst(<<1, 1>>) ]_vars

\* 1.0, 11.0 and 10.0 have been pushed: the third xor has 14 leading and 49
\* trailing zeros and went into the window of the second, 1 leading and 49
\* trailing zeros, as 10 and 14 bits
C23_Witness ==
    /\ pushed = << <<16368, 0, 0, 0>>, <<16422, 0, 0, 0>>, <<16420, 0, 0, 0>> >>
    /\ ZerosBefore(PushedXor(2)) = 1 /\ ZerosAfter(PushedXor(2)) = 49
    /\ ZerosBefore(PushedXor(3)) = 14 /\ ZerosAfter(PushedXor(3)) = 49
    /\ written[Len(written) - 1] = <<FromInt(2), 2>>
    /\ written[Len(written)] = <<One64, 14>>
    /\ VecWriter_len(Writer) = 64 + 13 + 14 + 2 + 14

\* the writes the step issued
Issued == SubSeq(written', Len(written) + 1, Len(written'))

\* C24: no push of DoubleStreamWriter fails, and for a non-zero xor the
\* capped leading-zero count is below 32 and 64 - tz - lz is from 1 to 64:
\* every write of the push has a count from 1 to 64 and a payload that fits
\* it, the 5-bit and the 6-bit field included.
C24_AssertionsHold ==
    [][ (PushIssued("push") /\ values.tag = "Following") =>
          /\ ~panicked'
          /\ Issued # <<>>
          /\ \A i \in 1..Len(Issued) :
                Issued[i][2] \in 1..WordBits /\ IsMasked(Issued[i][1], Issued[i][2])
          /\ Xor(values.value, call'.bits) # Zero64 =>
                /\ CappedLz(Xor(values.value, call'.bits)) < 32
                /\ WordBits - ZerosAfter(Xor(values.value, call'.bits))
                       - CappedLz(Xor(values.value, call'.bits)) \in 1..WordBits
                /\ Issued[Len(Issued)][2] \in
                       { WordBits - ZerosAfter(Xor(values.value, call'.bits))
                             - CappedLz(Xor(values.value, call'.bits)),
                         WordBits - ZerosAfter(values.xor) - ZerosBefore(values.xor) } ]_vars

\* 0.0 and then the pattern 1 have been pushed: the xor has 63 leading
\* zeros, written as 31, and 33 meaningful bits, written as 32
C24_Witness ==
    /\ pushed = <<Zero64, One64>>
    /\ ~panicked
    /\ written = << <<Zero64, 64>>, <<FromInt(3), 2>>, <<FromInt(31), 5>>,
                    <<FromInt(32), 6>>, <<One64, 33>> >>

\* the window an encoder or a decoder of the shrinking variant holds: the
\* leading and the trailing zeros of its stored xor
WindowOf(self) == <<ZerosBefore(self.xor), ZerosAfter(self.xor)>>

\* the state of DoubleStreamWriter after the first k of the values pushed
RECURSIVE WriterAfter(_)
WriterAfter(k) ==
    IF k = 0 THEN DoubleStreamWriter_new
    ELSE DoubleStreamWriter_push(WriterAfter(k - 1), pushed[k]).state

\* C25: once the decoder has yielded k values, it holds the value and the
\* window, the leading and trailing zeros of the stored xor, that the
\* encoder held after it had pushed k values.
C25_WindowsAgree ==
    (phase = "read" /\ ~panicked /\ Len(decoded) \in 1..Len(pushed)
                    /\ decoded[Len(decoded)] # None) =>
        /\ value_parser.value = WriterAfter(Len(decoded)).value
        /\ WindowOf(value_parser) = WindowOf(WriterAfter(Len(decoded)))

\* the window DoubleStreamLeadTrail holds
StoredWindow(self) == <<self.leading_zeros, self.meaningful_count>>

\* C26: a push of DoubleStreamLeadTrail stores the value pushed; unless it
\* resets the window (prefix 11) it writes the single bit 0, for a repeated
\* value, or the prefix 10, and leaves leading_zeros and meaningful_count
\* as they were.
C26_WindowKept ==
    [][ (PushIssued("push_lead_trail") /\ lead_trail.tag = "Following" /\ ~panicked') =>
          /\ lead_trail'.value = call'.bits
          /\ Issued[1] \in {<<Zero64, 1>>, <<FromInt(2), 2>>, <<FromInt(3), 2>>}
          /\ Issued[1] = <<Zero64, 1>> <=> call'.bits = lead_trail.value
          /\ Issued[1] # <<FromInt(3), 2>> => StoredWindow(lead_trail') = StoredWindow(lead_trail) ]_vars

\* DoubleStreamLeadTrail has pushed 0.0, 1.0 and 0.0: the second push set
\* the window, the third went into it as 10 and 12 bits and left it alone
C26_Witness ==
    /\ call.op = "push_lead_trail"
    /\ pushed = <<Zero64, <<16368, 0, 0, 0>>, Zero64>>
    /\ values.tag = "Initial"
    /\ lead_trail = DoubleStreamStateLeadTrail_Following(Zero64, 2, 12)
    /\ written[Len(written) - 1] = <<FromInt(2), 2>>
    /\ written[Len(written)][2] = 12

\* C27: a push of DoubleStreamLeadTrail that resets the window stores
\* leading_zeros = min(lz, 31) and meaningful_count = 64 - tz - lz, the
\* count it wrote to the 6-bit field plus one, so that
\* 64 - leading_zeros - meaningful_count is the trailing zeros of the xor.
C27_StoredWindow ==
    [][ (/\ PushIssued("push_lead_trail")
         /\ lead_trail.tag = "Following"
         /\ ~panicked'
         /\ Issued[1] = <<FromInt(3), 2>>) =>
          /\ lead_trail'.leading_zeros = CappedLz(Xor(lead_trail.value, call'.bits))
          /\ FromInt(lead_trail'.meaningful_count - 1) = Issued[3][1]
          /\ WordBits - lead_trail'.leading_zeros - lead_trail'.meaningful_count
                 = ZerosAfter(Xor(lead_trail.value, call'.bits)) ]_vars

\* C28: DoubleStreamLeadTrail never holds a window with leading_zeros +
\* meaningful_count above 64, and none of its pushes fails.
C28_WindowWithin64 ==
    /\ call.op = "push_lead_trail" => ~panicked
    /\ lead_trail.tag = "Following" =>
          lead_trail.leading_zeros + lead_trail.meaningful_count <= WordBits

\* a word with l leading zeros, t trailing zeros and ones between them
WindowWord(l, t) == IF l + t >= WordBits THEN Zero64 ELSE Shl(Shr(Ones64, l + t), t)

\* the state of DoubleStreamWriter with the value and the window of the
\* DoubleStreamLeadTrail state self
SameWindow(self) ==
    DoubleStreamState_Following(
        self.value,
        WindowWord(self.leading_zeros,
                   WordBits - self.leading_zeros - self.meaningful_count))

\* xors to push next: none, 1.0, one bit within 12 and 52 zeros, the lowest
\* bit, the highest bit, every bit, the bits of 11.0
NextXors ==
    {Zero64, <<16368, 0, 0, 0>>, <<16, 0, 0, 0>>, One64, <<32768, 0, 0, 0>>, Ones64,
     <<16422, 0, 0, 0>>}

\* the path of a push and the bits it appends, from the writes it issues
PathAndBits(p) == <<p.panic, Len(p.writes), p.writes[1][2], ExpectedBits(p.writes)>>

\* C29: from a DoubleStreamLeadTrail state (L, M) with L + M <= 64 and a
\* DoubleStreamWriter state with the same value and a stored xor of L
\* leading and 64 - L - M trailing zeros, a push of the same next value
\* takes the same path and appends the same bits in both encoders.
C29_SameBitsSameWindow ==
    (/\ lead_trail.tag = "Following"
     /\ lead_trail.leading_zeros + lead_trail.meaningful_count <= WordBits) =>
        \A x \in NextXors :
            PathAndBits(DoubleStreamWriter_push(SameWindow(lead_trail),
                                                Xor(lead_trail.value, x)))
              = PathAndBits(DoubleStreamLeadTrail_push(lead_trail, Xor(lead_trail.value, x),
                                                       overflow_checks))

\* DoubleStreamLeadTrail holds 1.0 and the window (2, 12): both encoders
\* write a push of 0.0 as 10 and 12 bits, and a push of 11.0 as a reset
C29_Witness ==
    /\ lead_trail = DoubleStreamStateLeadTrail_Following(<<16368, 0, 0, 0>>, 2, 12)
    /\ SameWindow(lead_trail).xor = <<16380, 0, 0, 0>>
    /\ DoubleStreamLeadTrail_push(lead_trail, Zero64, overflow_checks).writes
           = << <<FromInt(2), 2>>, <<FromInt(4092), 12>> >>
    /\ DoubleStreamWriter_push(SameWindow(lead_trail), Zero64).writes
           = << <<FromInt(2), 2>>, <<FromInt(4092), 12>> >>
    /\ DoubleStreamWriter_push(SameWindow(lead_trail), <<16422, 0, 0, 0>>).writes[1]
           = <<FromInt(3), 2>>

\* C30: the first push of DoubleStreamLeadTrail sets the window (64, 0), a
\* repeated value keeps it, and a push with a non-zero xor on that window
\* does not fail, resets the window (prefix 11) and leaves another window.
C30_FirstWindowNeverReused ==
    [][ PushIssued("push_lead_trail") =>
          /\ lead_trail.tag = "Initial" => StoredWindow(lead_trail') = <<64, 0>>
          /\ (lead_trail.tag = "Following" /\ StoredWindow(lead_trail) = <<64, 0>>) =>
                /\ ~panicked'
                /\ IF call'.bits = lead_trail.value
                   THEN StoredWindow(lead_trail') = <<64, 0>>
                   ELSE /\ Issued[1] = <<FromInt(3), 2>>
                        /\ Len(Issued) = 4
                        /\ StoredWindow(lead_trail') # <<64, 0>> ]_vars

\* DoubleStreamLeadTrail has pushed 1.0, 1.0 and 11.0: 64 bits, a 0 bit,
\* and a window reset
C30_Witness ==
    /\ call.op = "push_lead_trail"
    /\ values.tag = "Initial"
    /\ pushed = << <<16368, 0, 0, 0>>, <<16368, 0, 0, 0>>, <<16422, 0, 0, 0>> >>
    /\ Len(written) = 6
    /\ written[2] = <<Zero64, 1>>
    /\ written[3] = <<FromInt(3), 2>>
    /\ StoredWindow(lead_trail) = <<1, 15>>

\* a push completed in this step
PushCompleted == call'.op = "push" /\ Len(pushed') = Len(pushed) + 1

\* a next() returned in this step, with a sample or with None
NextReturned == call'.op = "next" /\ Len(decoded') = Len(decoded) + 1

\* the codec state self stays Following once it is, and turns Following
\* only in a step where `first` holds
InitialThenFollowing(self, first) ==
    /\ self.tag = "Following" => self'.tag = "Following"
    /\ (self.tag = "Initial" /\ self'.tag = "Following") => first

\* C31: an encoder is Initial until its first push completes and Following
\* after every push of it that completes; a decoder turns Following only
\* when a next() yields a sample, is Following after every next() that
\* does, and is left as it was by a next() that returns None; none returns
\* to Initial.
C31_InitialThenFollowing ==
    [][ /\ InitialThenFollowing(timestamps, PushCompleted)
        /\ InitialThenFollowing(values, PushCompleted)
        /\ InitialThenFollowing(timestamp_parser,
                                NextReturned /\ decoded'[Len(decoded')] # None)
        /\ InitialThenFollowing(value_parser,
                                NextReturned /\ decoded'[Len(decoded')] # None)
        /\ PushCompleted =>
              /\ Pushing' # "none"
              /\ Len(pushed'[Len(pushed')]) = 2 => Pushing' = "pair"
        /\ ~PushCompleted => timestamps' = timestamps /\ values' = values
        /\ (NextReturned /\ decoded'[Len(decoded')] # None) =>
              /\ iterator \in {"timestamp", "pair"} => timestamp_parser'.tag = "Following"
              /\ iterator \in {"double", "pair"} => value_parser'.tag = "Following"
        /\ (NextReturned /\ decoded'[Len(decoded')] = None) =>
              timestamp_parser' = timestamp_parser /\ value_parser' = value_parser ]_vars

\* one pair has been pushed and the paired iterator has yielded it and then
\* None: both encoders and both decoders are Following
C31_Witness ==
    /\ iterator = "pair"
    /\ Len(pushed) = 1
    /\ decoded = <<Some(pushed[1]), None>>
    /\ timestamps.tag = "Following" /\ values.tag = "Following"
    /\ timestamp_parser.tag = "Following" /\ value_parser.tag = "Following"
    /\ timestamp_parser.value = timestamps.value

\* what the timestamp parser of the paired iterator returns from here, and
\* what the value parser returns after it
TimestampFromHere == TimestampStreamParser_next(timestamp_parser, reader, overflow_checks)

ValueAfter(t) == DoubleStreamParser_next(value_parser, t.reader, overflow_checks)

\* a next() was called in this step
NextCalled == phase = "read" /\ call'.op = "next" /\ ~panicked

\* C32: a next() of the paired iterator whose timestamp parser returns None
\* returns None, leaves the value parser as it was and consumes no bit; one
\* whose timestamp parser returns a timestamp fails when the value parser
\* finds no value, and returns the pair otherwise.
C32_ValueOnlyAfterTimestamp ==
    [][ (NextCalled /\ iterator = "pair" /\ ~TimestampFromHere.panic) =>
          IF TimestampFromHere.ret = None
          THEN /\ ~panicked'
               /\ decoded' = Append(decoded, None)
               /\ value_parser' = value_parser
               /\ reader' = reader
          ELSE IF ValueAfter(TimestampFromHere).ret = None
          THEN panicked' /\ decoded' = decoded
          ELSE /\ ~panicked'
               /\ decoded' = Append(decoded, Some(<<TimestampFromHere.ret[1],
                                                     ValueAfter(TimestampFromHere).ret[1]>>))
               /\ value_parser' = ValueAfter(TimestampFromHere).state ]_vars

\* the stream of one pair was cut one bit short: the timestamp was there,
\* the 64 bits of the value were not, and next() failed without a pair
C32_Witness ==
    /\ iterator = "pair"
    /\ Len(pushed) = 1
    /\ ReaderBits(reader) = 14 + WordBits - 1
    /\ panicked
    /\ decoded = <<>>
    /\ value_parser.tag = "Initial"

\* offsets c to move a run by: 1, 2^32, -1 and -10000
Shifts ==
    { [down |-> FALSE, by |-> One64], [down |-> FALSE, by |-> <<0, 1, 0, 0>>],
      [down |-> TRUE, by |-> One64], [down |-> TRUE, by |-> FromInt(10000)] }

\* x + c, and whether it left the range of u64
Shifted(x, c) == IF c.down THEN Sub64(x, c.by) ELSE Add64(x, c.by)

\* the run of TimestampStreamWriter with the header time and the first k
\* timestamps pushed all moved by c, on a fresh VecWriter
RECURSIVE ShiftedRun(_, _)
ShiftedRun(k, c) ==
    IF k = 0
    THEN [state  |-> TimestampStreamWriter_new(Shifted(header_time, c).val),
          writer |-> VecWriter_new,
          panic  |-> FALSE]
    ELSE PushOnto(ShiftedRun(k - 1, c).state,
                  TimestampStreamWriter_push(ShiftedRun(k - 1, c).state,
                                             Shifted(pushed[k], c).val, overflow_checks),
                  ShiftedRun(k - 1, c).writer, overflow_checks)

\* the header time and the timestamps of this run, the one of an aborted
\* push included, stay within u64 when moved by c
ShiftInRange(c) ==
    /\ ~Shifted(header_time, c).overflow
    /\ \A k \in 1..Len(pushed) : ~Shifted(pushed[k], c).overflow
    /\ panicked => ~Shifted(call.bits, c).overflow

\* C33: at every push, the run with the header time and the timestamps all
\* moved by the same c has written the same buffer as this one, and its
\* push aborts if and only if this one does.
C33_HeaderIndependent ==
    phase = "write" =>
        \A c \in Shifts :
            ShiftInRange(c) =>
                /\ ~ShiftedRun(Len(pushed), c).panic
                /\ ShiftedRun(Len(pushed), c).writer = Writer
                /\ call.op = "push" =>
                      panicked = PushOnto(ShiftedRun(Len(pushed), c).state,
                                     TimestampStreamWriter_push(
                                         ShiftedRun(Len(pushed), c).state,
                                         Shifted(call.bits, c).val, overflow_checks),
                                     ShiftedRun(Len(pushed), c).writer, overflow_checks).panic
                          \/ ~panicked

\* three timestamps pushed after the header time 10000: the run moved by
\* -10000 holds other timestamps and has written the same 14 + 16 + 36 bits
C33_Witness ==
    /\ phase = "write"
    /\ header_time = FromInt(10000)
    /\ pushed = <<FromInt(10005), FromInt(10305), FromInt(15305)>>
    /\ ShiftedRun(3, [down |-> TRUE, by |-> FromInt(10000)]).state.value = FromInt(5305)
    /\ ShiftedRun(3, [down |-> TRUE, by |-> FromInt(10000)]).writer = Writer
    /\ VecWriter_len(Writer) = 14 + 16 + 36

\* every read issued so far had a count of 1..64
PositiveReads == \A i \in 1..Len(reads) : reads[i].count \in 1..WordBits

\* the bits a VecReader has consumed
Consumed(rd) == rd.index * WordBits + rd.read_bits_current_index

\* C35: a VecReader over a VecWriter's buffer, after reads of 1..64 bits,
\* has read_bits_current_index <= 64, index < bit_vector.len() and has
\* consumed no more than the total bits; no read of it indexed a word
\* outside the vector.
C35_ReaderWithinBuffer ==
    (ReadsWriterBuffer /\ reader.num_bits_last_elm = used_bits_last_elm /\ PositiveReads) =>
        /\ reader.read_bits_current_index <= WordBits
        /\ reader.index < Len(reader.bit_vector)
        /\ Consumed(reader) <= ReaderBits(reader)
        /\ VecReader_remaining(reader) >= 0
        /\ ~overflow_checks => ~panicked

\* 63 and 64 bits written and read back: the second read spans both words
\* and leaves the reader at the end of the buffer, in its last word
C35_Witness ==
    /\ ReadsWriterBuffer
    /\ Len(reads) = 2
    /\ reads[1].count = WordBits - 1
    /\ reads[2].count = WordBits
    /\ reads[2].ok
    /\ reader.index = 1
    /\ reader.read_bits_current_index = WordBits - 1
    /\ Consumed(reader) = ReaderBits(reader)

\* C36: with every write's bits below 2^count, the low
\* 64 - used_bits_last_elm bits of the writer's last word are zero.
C36_LowBitsZero ==
    AllMasked =>
        And(bit_vector[Len(bit_vector)], LowMask(WordBits - used_bits_last_elm)) = Zero64

\* 64 bits and then 63 bits, all ones, written: the second write opens a
\* new word and leaves its lowest bit clear
C36_Witness ==
    /\ AllMasked
    /\ Len(written) = 2
    /\ written[1] = <<Ones64, WordBits>>
    /\ written[2][2] = WordBits - 1
    /\ used_bits_last_elm = WordBits - 1
    /\ bit_vector[2] = <<65535, 65535, 65535, 65534>>

\* 2^31 - 1 and -(2^31 - 1) as i64
MaxDod == <<0, 0, 32767, 65535>>

MinDod == <<65535, 65535, 32768, 1>>

\* every push was one of a timestamp on the IntStream, and the timestamps
\* honour the conditions of the two's-complement codec: none before the
\* header time, the first less than 2^14 after it,
\* none before the one before, every delta of deltas within (-2^31, 2^31)
IntsValid ==
    /\ \A k \in 1..Len(pushed) : Len(pushed[k]) = 4
    /\ Len(pushed) >= 1 =>
           LeU64(header_time, pushed[1]) /\ LtU64(PushedDelta(1), Shl(One64, 14))
    /\ \A k \in 2..Len(pushed) :
           /\ LeU64(pushed[k - 1], pushed[k])
           /\ LeI64(MinDod, SubI64(PushedDelta(k), PushedDelta(k - 1)).val)
           /\ LeI64(SubI64(PushedDelta(k), PushedDelta(k - 1)).val, MaxDod)

\* C34: for every non-decreasing sequence of timestamps with the first delta
\* below 2^14 and every delta of deltas within (-2^31, 2^31), the
\* IntStreamIterator over the IntStream's buffer, stepped by itself, yields
\* exactly the pushed sequence, then None.
C34_IntRoundTrip ==
    (phase = "read" /\ iterator = "int" /\ IntsValid) => DecodesPushed

\* 3000, then a delta of 3000 + 2^31 - 1, then a delta of 3000: the deltas of
\* deltas 2^31 - 1 and -(2^31 - 1) went through the 32-bit field and came back
C34_Witness ==
    /\ phase = "read"
    /\ iterator = "int"
    /\ IntsValid
    /\ Len(pushed) = 3
    /\ PushedDelta(2) = <<0, 0, 32768, 2999>>
    /\ PushedDelta(3) = FromInt(3000)
    /\ decoded = <<Some(pushed[1]), Some(pushed[2]), Some(pushed[3]), None>>
    /\ ~panicked

\* 3000, then a delta of 3064, then a delta of 3001: the deltas of deltas 64
\* and -63, the ends of the 7-bit class, came back
C34_WitnessClassEnds ==
    /\ phase = "read"
    /\ iterator = "int"
    /\ IntsValid
    /\ Len(pushed) = 3
    /\ PushedDelta(2) = FromInt(3064)
    /\ PushedDelta(3) = FromInt(3001)
    /\ decoded = <<Some(pushed[1]), Some(pushed[2]), Some(pushed[3]), None>>

====
